---- MODULE Spec2Model ----
(***************************************************************************)
(* A model of alexa_sdk's wire codec: the open enumerations declared with  *)
(* declare_api_enum! (and by hand: IntentType, Locale), the Locale helpers *)
(* and the RequestEnvelope accessors.                                       *)
(*                                                                         *)
(* A Rust String is a sequence of one-character strings, so that casing,   *)
(* splitting and concatenation are computed and not assumed.  Option<T> is *)
(* a sequence of length at most one: None == <<>>, Some(x) == <<x>>.        *)
(***************************************************************************)
EXTENDS Integers, Sequences, FiniteSets, TLC

VARIABLES enumT, input, wire, val, orig, pc, answer, doc, env, rpc, result,
          audioplayer, resp, made, writes, placed, emitted, reread, ppc

vars == <<enumT, input, wire, val, orig, pc, answer, doc, env, rpc, result,
          audioplayer, resp, made, writes, placed, emitted, reread, ppc>>

codecVars == <<enumT, input, wire, val, orig, pc, answer>>

requestVars == <<doc, env, rpc, result>>

responseVars == <<audioplayer, resp, made, writes, placed, emitted, reread, ppc>>

\* ---------------------------------------------------------------- bounds

\* Longest generated wire string (on top of the fixed corpus).
MaxLen == 3

\* ---------------------------------------------------------------- Option

None == <<>>

Some(x) == <<x>>

IsSome(o) == Len(o) = 1

Unwrap(o) == o[1]

\* ---------------------------------------------------------------- chars

LowerChars ==
    <<"a","b","c","d","e","f","g","h","i","j","k","l","m",
      "n","o","p","q","r","s","t","u","v","w","x","y","z">>

UpperChars ==
    <<"A","B","C","D","E","F","G","H","I","J","K","L","M",
      "N","O","P","Q","R","S","T","U","V","W","X","Y","Z">>

\* char::is_uppercase, on the ASCII letters the declarations use
is_uppercase(c) == \E i \in DOMAIN UpperChars : UpperChars[i] = c

\* char::to_ascii_lowercase
to_ascii_lowercase(c) ==
    IF is_uppercase(c)
    THEN LowerChars[CHOOSE i \in DOMAIN UpperChars : UpperChars[i] = c]
    ELSE c

\* char::to_ascii_uppercase
to_ascii_uppercase(c) ==
    IF \E i \in DOMAIN LowerChars : LowerChars[i] = c
    THEN UpperChars[CHOOSE i \in DOMAIN LowerChars : LowerChars[i] = c]
    ELSE c

\* str::to_ascii_uppercase
str_to_ascii_uppercase(s) == [i \in DOMAIN s |-> to_ascii_uppercase(s[i])]

\* Flattens a sequence of strings into one string.
RECURSIVE Concat(_)
Concat(ss) == IF ss = <<>> THEN <<>> ELSE Head(ss) \o Concat(Tail(ss))

\* Mutant: snake_case without the underscores at the word boundaries.
snake_case_unseparated(variant) == [i \in DOMAIN variant |-> to_ascii_lowercase(variant[i])]

\* serde's snake_case rule for a variant name: an underscore before every
\* upper-case character but the first, every character lower-cased.
snake_case(variant) ==
    Concat([i \in DOMAIN variant |->
              IF i > 1 /\ is_uppercase(variant[i])
              THEN <<"_", to_ascii_lowercase(variant[i])>>
              ELSE <<to_ascii_lowercase(variant[i])>>])

\* serde's camelCase rule for a variant name: the first character lower-cased.
camel_case(variant) ==
    [i \in DOMAIN variant |->
       IF i = 1 THEN to_ascii_lowercase(variant[i]) ELSE variant[i]]

\* #[serde(rename_all = $convention)] applied to a variant name.
apply_to_variant(convention, variant) ==
    CASE convention = "PascalCase" -> variant
      [] convention = "camelCase" -> camel_case(variant)
      [] convention = "SCREAMING_SNAKE_CASE" -> str_to_ascii_uppercase(snake_case(variant))

\* ---------------------------------------------------------------- declarations

\* stringify!(variant): the characters of each declared variant identifier.
IdentChars ==
    << <<"LaunchRequest", <<"L","a","u","n","c","h","R","e","q","u","e","s","t">>>>,
        <<"IntentRequest", <<"I","n","t","e","n","t","R","e","q","u","e","s","t">>>>,
        <<"SessionEndedRequest", <<"S","e","s","s","i","o","n","E","n","d","e","d","R","e","q","u","e","s","t">>>>,
        <<"CanFulfillIntentRequest", <<"C","a","n","F","u","l","f","i","l","l","I","n","t","e","n","t","R","e","q","u","e","s","t">>>>,
        <<"PlainText", <<"P","l","a","i","n","T","e","x","t">>>>,
        <<"SSML", <<"S","S","M","L">>>>,
        <<"Enqueue", <<"E","n","q","u","e","u","e">>>>,
        <<"ReplaceAll", <<"R","e","p","l","a","c","e","A","l","l">>>>,
        <<"ReplaceEnqueued", <<"R","e","p","l","a","c","e","E","n","q","u","e","u","e","d">>>>,
        <<"Simple", <<"S","i","m","p","l","e">>>>,
        <<"Standard", <<"S","t","a","n","d","a","r","d">>>>,
        <<"LinkAccount", <<"L","i","n","k","A","c","c","o","u","n","t">>>>,
        <<"AskForPermissionsConsent", <<"A","s","k","F","o","r","P","e","r","m","i","s","s","i","o","n","s","C","o","n","s","e","n","t">>>>,
        <<"XSmall", <<"X","S","m","a","l","l">>>>,
        <<"Small", <<"S","m","a","l","l">>>>,
        <<"Medium", <<"M","e","d","i","u","m">>>>,
        <<"Large", <<"L","a","r","g","e">>>>,
        <<"XLarge", <<"X","L","a","r","g","e">>>>,
        <<"Help", <<"H","e","l","p">>>>,
        <<"Cancel", <<"C","a","n","c","e","l">>>>,
        <<"Fallback", <<"F","a","l","l","b","a","c","k">>>>,
        <<"LoopOff", <<"L","o","o","p","O","f","f">>>>,
        <<"LoopOn", <<"L","o","o","p","O","n">>>>,
        <<"NavigateHome", <<"N","a","v","i","g","a","t","e","H","o","m","e">>>>,
        <<"Next", <<"N","e","x","t">>>>,
        <<"No", <<"N","o">>>>,
        <<"Pause", <<"P","a","u","s","e">>>>,
        <<"Previous", <<"P","r","e","v","i","o","u","s">>>>,
        <<"Repeat", <<"R","e","p","e","a","t">>>>,
        <<"Resume", <<"R","e","s","u","m","e">>>>,
        <<"Select", <<"S","e","l","e","c","t">>>>,
        <<"ShuffleOff", <<"S","h","u","f","f","l","e","O","f","f">>>>,
        <<"ShuffleOn", <<"S","h","u","f","f","l","e","O","n">>>>,
        <<"StartOver", <<"S","t","a","r","t","O","v","e","r">>>>,
        <<"Stop", <<"S","t","o","p">>>>,
        <<"Yes", <<"Y","e","s">>>> >>

\* IntentType: one #[serde(rename = ...)] literal per known variant.
IntentTypeRename ==
    << <<"Help", <<"A","M","A","Z","O","N",".","H","e","l","p","I","n","t","e","n","t">>>>,
        <<"Cancel", <<"A","M","A","Z","O","N",".","C","a","n","c","e","l","I","n","t","e","n","t">>>>,
        <<"Fallback", <<"A","M","A","Z","O","N",".","F","a","l","l","b","a","c","k","I","n","t","e","n","t">>>>,
        <<"LoopOff", <<"A","M","A","Z","O","N",".","L","o","o","p","O","f","f","I","n","t","e","n","t">>>>,
        <<"LoopOn", <<"A","M","A","Z","O","N",".","L","o","o","p","O","n","I","n","t","e","n","t">>>>,
        <<"NavigateHome", <<"A","M","A","Z","O","N",".","N","a","v","i","g","a","t","e","H","o","m","e","I","n","t","e","n","t">>>>,
        <<"Next", <<"A","M","A","Z","O","N",".","N","e","x","t","I","n","t","e","n","t">>>>,
        <<"No", <<"A","M","A","Z","O","N",".","N","o","I","n","t","e","n","t">>>>,
        <<"Pause", <<"A","M","A","Z","O","N",".","P","a","u","s","e","I","n","t","e","n","t">>>>,
        <<"Previous", <<"A","M","A","Z","O","N",".","P","r","e","v","i","o","u","s","I","n","t","e","n","t">>>>,
        <<"Repeat", <<"A","M","A","Z","O","N",".","R","e","p","e","a","t","I","n","t","e","n","t">>>>,
        <<"Resume", <<"A","M","A","Z","O","N",".","R","e","s","u","m","e","I","n","t","e","n","t">>>>,
        <<"Select", <<"A","M","A","Z","O","N",".","S","e","l","e","c","t","I","n","t","e","n","t">>>>,
        <<"ShuffleOff", <<"A","M","A","Z","O","N",".","S","h","u","f","f","l","e","O","f","f","I","n","t","e","n","t">>>>,
        <<"ShuffleOn", <<"A","M","A","Z","O","N",".","S","h","u","f","f","l","e","O","n","I","n","t","e","n","t">>>>,
        <<"StartOver", <<"A","M","A","Z","O","N",".","S","t","a","r","t","O","v","e","r","I","n","t","e","n","t">>>>,
        <<"Stop", <<"A","M","A","Z","O","N",".","S","t","o","p","I","n","t","e","n","t">>>>,
        <<"Yes", <<"A","M","A","Z","O","N",".","Y","e","s","I","n","t","e","n","t">>>> >>

\* Locale::as_str: the match arms, variant => literal, in source order.
LocaleAsStrArms ==
    << <<"Italian", <<"i","t","-","I","T">>>>,
        <<"German", <<"d","e","-","D","E">>>>,
        <<"AustralianEnglish", <<"e","n","-","A","U">>>>,
        <<"CanadianEnglish", <<"e","n","-","C","A">>>>,
        <<"BritishEnglish", <<"e","n","-","G","B">>>>,
        <<"IndianEnglish", <<"e","n","-","I","N">>>>,
        <<"AmericanEnglish", <<"e","n","-","U","S">>>>,
        <<"Japanese", <<"j","a","-","J","P">>>>,
        <<"Hindi", <<"h","i","-","H","I">>>>,
        <<"Spanish", <<"e","s","-","E","S">>>>,
        <<"MexicanSpanish", <<"e","s","-","M","X">>>>,
        <<"AmericanSpanish", <<"e","s","-","U","S">>>>,
        <<"French", <<"f","r","-","F","R">>>>,
        <<"CanadianFrench", <<"f","r","-","C","A">>>>,
        <<"BrazilianPortuguese", <<"p","t","-","B","R">>>> >>

\* From<S> for Locale: the match arms, literal => variant, in source order
\* (listed here as <<variant, literal>>).
LocaleFromArms ==
    << <<"Italian", <<"i","t","-","I","T">>>>,
        <<"German", <<"d","e","-","D","E">>>>,
        <<"AustralianEnglish", <<"e","n","-","A","U">>>>,
        <<"CanadianEnglish", <<"e","n","-","C","A">>>>,
        <<"BritishEnglish", <<"e","n","-","G","B">>>>,
        <<"IndianEnglish", <<"e","n","-","I","N">>>>,
        <<"AmericanEnglish", <<"e","n","-","U","S">>>>,
        <<"Japanese", <<"j","a","-","J","P">>>>,
        <<"Hindi", <<"h","i","-","H","I">>>>,
        <<"Spanish", <<"e","s","-","E","S">>>>,
        <<"MexicanSpanish", <<"e","s","-","M","X">>>>,
        <<"AmericanSpanish", <<"e","s","-","U","S">>>>,
        <<"French", <<"f","r","-","F","R">>>>,
        <<"CanadianFrench", <<"f","r","-","C","A">>>>,
        <<"BrazilianPortuguese", <<"p","t","-","B","R">>>> >>

\* declare_api_enum! { RequestType["PascalCase"] { ... } }
RequestTypeVariants ==
    <<"LaunchRequest", "IntentRequest", "SessionEndedRequest", "CanFulfillIntentRequest">>

\* declare_api_enum! { SpeechType["PascalCase"] { ... } }
SpeechTypeVariants == <<"PlainText", "SSML">>

\* declare_api_enum! { PlayBehavior["SCREAMING_SNAKE_CASE"] { ... } }
PlayBehaviorVariants == <<"Enqueue", "ReplaceAll", "ReplaceEnqueued">>

\* declare_api_enum! { CardType["PascalCase"] { ... } }
CardTypeVariants == <<"Simple", "Standard", "LinkAccount", "AskForPermissionsConsent">>

\* declare_api_enum! { ImageSize => "SCREAMING_SNAKE_CASE" { ... } }
ImageSizeVariants == <<"XSmall", "Small", "Medium", "Large", "XLarge">>

\* The enumerations declared through the macro's convention arm.
ConventionEnums == {"RequestType", "SpeechType", "PlayBehavior", "CardType", "ImageSize"}

Enums == ConventionEnums \cup {"IntentType", "Locale"}

\* The $convention literal of each declaration.
Convention(E) ==
    CASE E = "RequestType" -> "PascalCase"
      [] E = "SpeechType" -> "PascalCase"
      [] E = "PlayBehavior" -> "SCREAMING_SNAKE_CASE"
      [] E = "CardType" -> "PascalCase"
      [] E = "ImageSize" -> "SCREAMING_SNAKE_CASE"

\* The known (unit) variants of each enumeration, in declaration order.
Variants(E) ==
    CASE E = "RequestType" -> RequestTypeVariants
      [] E = "SpeechType" -> SpeechTypeVariants
      [] E = "PlayBehavior" -> PlayBehaviorVariants
      [] E = "CardType" -> CardTypeVariants
      [] E = "ImageSize" -> ImageSizeVariants
      [] E = "IntentType" -> [i \in DOMAIN IntentTypeRename |-> IntentTypeRename[i][1]]
      [] E = "Locale" -> [i \in DOMAIN LocaleAsStrArms |-> LocaleAsStrArms[i][1]]

Chars(k) == IdentChars[CHOOSE i \in DOMAIN IdentChars : IdentChars[i][1] = k][2]

\* ---------------------------------------------------------------- values

\* A unit variant of an enumeration.
Unit(k) == [variant |-> k, text |-> <<>>]

\* The Other(String) variant.
Other(s) == [variant |-> "Other", text |-> s]

\* Result<T, E>
Ok(v) == [ok |-> TRUE, value |-> v]

Err == [ok |-> FALSE, value |-> Unit("Error")]

\* ---------------------------------------------------------------- the codec

\* A match on a string: the index of the first arm whose literal is s, 0
\* when no literal arm matches.  Arms are <<variant, literal>>.
MatchLiteral(arms, s) ==
    IF \E i \in DOMAIN arms : arms[i][2] = s
    THEN CHOOSE i \in DOMAIN arms :
           arms[i][2] = s /\ \A j \in DOMAIN arms : arms[j][2] = s => i <= j
    ELSE 0

\* A match on a variant: the index of the first arm for variant k.
MatchVariant(arms, k) ==
    CHOOSE i \in DOMAIN arms :
      arms[i][1] = k /\ \A j \in DOMAIN arms : arms[j][1] = k => i <= j

\* The names derive(Serialize, Deserialize) gives the unit variants of a
\* convention enumeration.
DeriveArms(E) ==
    [i \in DOMAIN Variants(E) |->
       <<Variants(E)[i], apply_to_variant(Convention(E), Chars(Variants(E)[i]))>>]

\* derive(Deserialize), the tagged variants: an unknown name is an error.
deserialize_tagged(arms, s) ==
    LET i == MatchLiteral(arms, s)
    IN IF i = 0 THEN Err ELSE Ok(Unit(arms[i][1]))

\* Mutant: the Other variant without #[serde(untagged)] is never tried.
derive_deserialize_tagged_only(arms, s) == deserialize_tagged(arms, s)

\* derive(Deserialize) with #[serde(untagged)] Other(String): the tagged
\* variants first, then the untagged one, which takes any string.
derive_deserialize(arms, s) ==
    LET r == deserialize_tagged(arms, s)
    IN IF r.ok THEN r ELSE Ok(Other(s))

\* Mutant: Other written under its variant name instead of as its string.
derive_serialize_named_other(arms, v) ==
    IF v.variant = "Other"
    THEN <<"O","t","h","e","r">>
    ELSE arms[MatchVariant(arms, v.variant)][2]

\* derive(Serialize): a unit variant as its name, Other as its string.
derive_serialize(arms, v) ==
    IF v.variant = "Other" THEN v.text ELSE arms[MatchVariant(arms, v.variant)][2]

\* Mutant: Hindi written with the region of the other Indian locale.
Locale_as_str_hindi(v) ==
    IF v.variant = "Other"
    THEN v.text
    ELSE IF v.variant = "Hindi"
         THEN <<"h","i","-","I","N">>
         ELSE LocaleAsStrArms[MatchVariant(LocaleAsStrArms, v.variant)][2]

\* Mutant: both French locales written as "fr-FR".
Locale_as_str_one_french(v) ==
    IF v.variant = "Other"
    THEN v.text
    ELSE IF v.variant = "CanadianFrench"
         THEN <<"f","r","-","F","R">>
         ELSE LocaleAsStrArms[MatchVariant(LocaleAsStrArms, v.variant)][2]

\* Locale::as_str
Locale_as_str(v) ==
    IF v.variant = "Other"
    THEN v.text
    ELSE LocaleAsStrArms[MatchVariant(LocaleAsStrArms, v.variant)][2]

\* Mutant: the "es-US" arm yields the other American locale.
Locale_from_swapped(s) ==
    LET i == MatchLiteral(LocaleFromArms, s)
    IN IF i = 0
       THEN Other(s)
       ELSE IF LocaleFromArms[i][1] = "AmericanSpanish"
            THEN Unit("AmericanEnglish")
            ELSE Unit(LocaleFromArms[i][1])

\* impl From<S> for Locale
Locale_from(s) ==
    LET i == MatchLiteral(LocaleFromArms, s)
    IN IF i = 0 THEN Other(s) ELSE Unit(LocaleFromArms[i][1])

\* impl Serialize for Locale
Locale_serialize(v) == Locale_as_str(v)

\* impl Deserialize for Locale: LocaleVisitor::visit_str
Locale_deserialize(s) == Ok(Locale_from(s))

\* Mutant: every string decoded as Other, the known names never tried.
Deserialize_other_only(E, s) == Ok(Other(s))

\* Mutant: IntentType decoded by its variant identifiers, without the renames.
Deserialize_without_rename(E, s) ==
    CASE E = "Locale" -> Locale_deserialize(s)
      [] E = "IntentType" ->
           derive_deserialize([i \in DOMAIN IntentTypeRename |->
                                 <<IntentTypeRename[i][1], Chars(IntentTypeRename[i][1])>>], s)
      [] OTHER -> derive_deserialize(DeriveArms(E), s)

\* Deserialization of a JSON string as enumeration E.
Deserialize(E, s) ==
    CASE E = "Locale" -> Locale_deserialize(s)
      [] E = "IntentType" -> derive_deserialize(IntentTypeRename, s)
      [] OTHER -> derive_deserialize(DeriveArms(E), s)

\* Serialization of a value of enumeration E as a JSON string.
Serialize(E, v) ==
    CASE E = "Locale" -> Locale_serialize(v)
      [] E = "IntentType" -> derive_serialize(IntentTypeRename, v)
      [] OTHER -> derive_serialize(DeriveArms(E), v)

\* Mutant: equality of the discriminants alone, the string of Other ignored.
PartialEq_eq_discriminant_only(a, b) == a.variant = b.variant

\* derive(PartialEq): the same variant and, for Other, the same string.
PartialEq_eq(a, b) ==
    IF a.variant # b.variant
    THEN FALSE
    ELSE IF a.variant = "Other" THEN a.text = b.text ELSE TRUE

\* Locale::is_english
is_english(v) ==
    v.variant \in {"AmericanEnglish", "AustralianEnglish", "CanadianEnglish",
                   "BritishEnglish", "IndianEnglish"}

\* Mutant: is_french matching on the region of Canada.
is_french_or_canadian(v) == v.variant \in {"French", "CanadianFrench", "CanadianEnglish"}

\* Locale::is_french
is_french(v) == v.variant \in {"French", "CanadianFrench"}

\* Locale::is_spanish
is_spanish(v) == v.variant \in {"Spanish", "AmericanSpanish", "MexicanSpanish"}

\* ---------------------------------------------------------------- locale parts

\* declare_api_enum!, explicit mapping: as_str
explicit_as_str(arms, v) ==
    IF v.variant = "Other" THEN v.text ELSE arms[MatchVariant(arms, v.variant)][2]

\* declare_api_enum!, explicit mapping: impl From<S>
explicit_from(arms, s) ==
    LET i == MatchLiteral(arms, s)
    IN IF i = 0 THEN Other(s) ELSE Unit(arms[i][1])

\* declare_api_enum! { Language { English => "en", French => "fr", ... } }: the
\* language codes of the locales of Locale::as_str.
LanguageArms ==
    << <<"English", <<"e","n">>>>,
       <<"French", <<"f","r">>>>,
       <<"Spanish", <<"e","s">>>>,
       <<"German", <<"d","e">>>>,
       <<"Japanese", <<"j","a">>>>,
       <<"Italian", <<"i","t">>>>,
       <<"Hindi", <<"h","i">>>>,
       <<"Portuguese", <<"p","t">>>> >>

\* declare_api_enum! { Region { Australia => "AU", ... } }: the region codes of
\* the locales of Locale::as_str.
RegionArms ==
    << <<"Australia", <<"A","U">>>>,
       <<"Canada", <<"C","A">>>>,
       <<"UnitedKingdom", <<"G","B">>>>,
       <<"India", <<"I","N">>>>,
       <<"UnitedStates", <<"U","S">>>>,
       <<"Germany", <<"D","E">>>>,
       <<"Japan", <<"J","P">>>>,
       <<"Italy", <<"I","T">>>>,
       <<"Spain", <<"E","S">>>>,
       <<"Mexico", <<"M","X">>>>,
       <<"France", <<"F","R">>>>,
       <<"Brazil", <<"B","R">>>> >>

\* The position of the first hyphen of s, 0 when it has none.
FirstHyphen(s) ==
    IF \E i \in DOMAIN s : s[i] = "-"
    THEN CHOOSE i \in DOMAIN s : s[i] = "-" /\ \A j \in DOMAIN s : s[j] = "-" => i <= j
    ELSE 0

\* Locale::parts: the locale's string split at its first hyphen, the language
\* and the region (when there is one) each as an open enumeration.
Locale_parts(v) ==
    LET s == Locale_as_str(v)
        h == FirstHyphen(s)
    IN IF h = 0
       THEN [language |-> explicit_from(LanguageArms, s), region |-> None]
       ELSE [language |-> explicit_from(LanguageArms, SubSeq(s, 1, h - 1)),
             region |-> Some(explicit_from(RegionArms, SubSeq(s, h + 1, Len(s))))]

\* ---------------------------------------------------------------- inputs

\* Strings of the tests and the documentation, and near misses of known wire
\* strings.
Corpus ==
    { <<"h","e","l","l","o">>,
      <<"F","o","o","B","a","r">>,
      <<"F","O","O","_","B","A","R">>,
      <<"e","n">>,
      <<"f","r">>,
      <<"e","s">>,
      <<"e","n","-","Z","Z">>,
      <<"f","r","-","Z","Z">>,
      <<"e","s","-","Z","Z">>,
      <<"x","x","-","Z","Z">>,
      <<"x","x","-","U","S">>,
      <<"a","-","b","-","c">>,
      <<"e","n","-","U","S","-","x">>,
      <<"O","t","h","e","r">>,
      <<"r","e","p","l","a","c","e","A","l","l">>,
      <<"R","e","p","l","a","c","e","_","A","l","l">>,
      <<"l","i","n","k","a","c","c","o","u","n","t">>,
      <<"A","M","A","Z","O","N",".","P","l","a","y","b","a","c","k","A","c","t","i","o","n","<","o","b","j","e","c","t","@","M","u","s","i","c","C","r","e","a","t","i","v","e","W","o","r","k",">">>,
      <<"A","M","A","Z","O","N",".","H","e","l","l","o","I","n","t","e","n","t">> }

\* The characters of the generated strings.
Alphabet == {"e", "n", "-"}

\* Every string over Alphabet of length at most n.
BoundedStrings(n) == UNION {[1..k -> Alphabet] : k \in 0..n}

\* The wire strings of E's known variants.
KnownWires(E) == {Serialize(E, Unit(Variants(E)[i])) : i \in DOMAIN Variants(E)}

\* The strings a peer may send or a caller may put into Other.
Inputs == BoundedStrings(MaxLen) \cup Corpus \cup UNION {KnownWires(E) : E \in Enums}

\* The values of enumeration E a caller can construct.
Values(E) ==
    {Unit(Variants(E)[i]) : i \in DOMAIN Variants(E)} \cup {Other(s) : s \in Inputs}

\* ---------------------------------------------------------------- codec machine

CodecInit ==
    /\ enumT \in Enums
    /\ input = None
    /\ wire = None
    /\ val = None
    /\ orig = None
    /\ pc = "idle"
    /\ answer = None

\* A JSON string s arrives for a field of enumeration type E.
Receive(E, s) ==
    /\ pc = "idle"
    /\ enumT' = E
    /\ input' = Some(s)
    /\ wire' = Some(s)
    /\ val' = None
    /\ orig' = None
    /\ pc' = "received"
    /\ answer' = None
    /\ UNCHANGED <<requestVars, responseVars>>

\* The caller constructs the value v of enumeration type E.
Construct(E, v) ==
    /\ pc = "idle"
    /\ enumT' = E
    /\ input' = None
    /\ wire' = None
    /\ val' = Some(v)
    /\ orig' = Some(v)
    /\ pc' = "constructed"
    /\ answer' = None
    /\ UNCHANGED <<requestVars, responseVars>>

\* serde_json::from_str on the string on the wire.
Decode ==
    /\ pc \in {"received", "encoded"}
    /\ LET r == Deserialize(enumT, Unwrap(wire))
       IN /\ val' = IF r.ok THEN Some(r.value) ELSE None
          /\ pc' = IF r.ok THEN "decoded" ELSE "failed"
    /\ answer' = None
    /\ UNCHANGED <<enumT, input, wire, orig>>
    /\ UNCHANGED <<requestVars, responseVars>>

\* serde_json::to_string on the value in memory.
Encode ==
    /\ pc \in {"constructed", "decoded"}
    /\ wire' = Some(Serialize(enumT, Unwrap(val)))
    /\ pc' = "encoded"
    /\ answer' = None
    /\ UNCHANGED <<enumT, input, val, orig>>
    /\ UNCHANGED <<requestVars, responseVars>>

\* The value and the string are dropped.
Reset ==
    /\ pc # "idle"
    /\ input' = None
    /\ wire' = None
    /\ val' = None
    /\ orig' = None
    /\ pc' = "idle"
    /\ answer' = None
    /\ UNCHANGED enumT
    /\ UNCHANGED <<requestVars, responseVars>>

\* A call of one of the Locale helpers on the value in memory.
Ask(op, ret) ==
    /\ enumT = "Locale"
    /\ pc \in {"constructed", "decoded"}
    /\ answer' = Some([op |-> op, ret |-> ret])
    /\ UNCHANGED <<enumT, input, wire, val, orig, pc>>
    /\ UNCHANGED <<requestVars, responseVars>>

\* assert_eq!(orig, val): the constructed value compared with the one decoded
\* from its wire string.
Eq ==
    /\ pc = "decoded"
    /\ IsSome(orig)
    /\ answer' = Some([op |-> "eq", ret |-> PartialEq_eq(Unwrap(orig), Unwrap(val))])
    /\ UNCHANGED <<enumT, input, wire, val, orig, pc>>
    /\ UNCHANGED <<requestVars, responseVars>>

IsEnglish == Ask("is_english", is_english(Unwrap(val)))

IsFrench == Ask("is_french", is_french(Unwrap(val)))

IsSpanish == Ask("is_spanish", is_spanish(Unwrap(val)))

Parts == Ask("parts", Locale_parts(Unwrap(val)))

\* ---------------------------------------------------------------- JSON values

\* serde_json::Value.  An object is a function from its keys to values.
JStr(s) == [kind |-> "string", data |-> s]

JBool(b) == [kind |-> "bool", data |-> b]

JNum(n) == [kind |-> "number", data |-> n]

JNull == [kind |-> "null", data |-> <<>>]

JArr(a) == [kind |-> "array", data |-> a]

JObj(f) == [kind |-> "object", data |-> f]

\* What a struct's deserializer sees for a key the object does not have.
Missing == [kind |-> "missing", data |-> <<>>]

\* The value under key k of object o.
Get(o, k) == IF k \in DOMAIN o.data THEN o.data[k] ELSE Missing

\* Option<T>: a missing key and null are None, anything else must be a T.
IsAbsent(j) == j.kind \in {"missing", "null"}

\* Option<T> from the result for T.
OptOf(res) ==
    CHOOSE out \in {IF r.ok THEN Ok(Some(r.value)) ELSE Err : r \in {res}} : TRUE

\* The results of the members of a struct, a map or a sequence, as one result:
\* the first error wins, else the values under the same keys.
AllOk(results) ==
    CHOOSE out \in
      {IF \A k \in DOMAIN r : r[k].ok THEN Ok([k \in DOMAIN r |-> r[k].value]) ELSE Err :
         r \in {results}} : TRUE

\* ---------------------------------------------------------------- request structs

de_String(j) == IF j.kind = "string" THEN Ok(j.data) ELSE Err

de_bool(j) == IF j.kind = "bool" THEN Ok(j.data) ELSE Err

de_u64(j) == IF j.kind = "number" /\ j.data >= 0 THEN Ok(j.data) ELSE Err

opt_String(j) == IF IsAbsent(j) THEN Ok(None) ELSE OptOf(de_String(j))

opt_u64(j) == IF IsAbsent(j) THEN Ok(None) ELSE OptOf(de_u64(j))

\* HashMap<String, String>
de_Map_String(j) ==
    IF j.kind # "object" THEN Err ELSE AllOk([k \in DOMAIN j.data |-> de_String(j.data[k])])

opt_Map_String(j) == IF IsAbsent(j) THEN Ok(None) ELSE OptOf(de_Map_String(j))

\* struct Application
de_Application(j) ==
    IF j.kind # "object"
    THEN Err
    ELSE AllOk([application_id |-> de_String(Get(j, "applicationId"))])

opt_Application(j) == IF IsAbsent(j) THEN Ok(None) ELSE OptOf(de_Application(j))

\* struct User
de_User(j) ==
    IF j.kind # "object"
    THEN Err
    ELSE AllOk([user_id |-> de_String(Get(j, "userId")),
                access_token |-> opt_String(Get(j, "accessToken"))])

\* struct Device
de_Device(j) ==
    IF j.kind # "object"
    THEN Err
    ELSE AllOk([device_id |-> de_String(Get(j, "deviceId"))])

opt_Device(j) == IF IsAbsent(j) THEN Ok(None) ELSE OptOf(de_Device(j))

\* struct Session
de_Session(j) ==
    IF j.kind # "object"
    THEN Err
    ELSE AllOk([new |-> de_bool(Get(j, "new")),
                session_id |-> de_String(Get(j, "sessionId")),
                attributes |-> opt_Map_String(Get(j, "attributes")),
                application |-> de_Application(Get(j, "application")),
                user |-> de_User(Get(j, "user"))])

opt_Session(j) == IF IsAbsent(j) THEN Ok(None) ELSE OptOf(de_Session(j))

\* struct Value
de_Value(j) ==
    IF j.kind # "object"
    THEN Err
    ELSE AllOk([name |-> de_String(Get(j, "name")), id |-> de_String(Get(j, "id"))])

\* struct ValueWrapper
de_ValueWrapper(j) ==
    IF j.kind # "object" THEN Err ELSE AllOk([value |-> de_Value(Get(j, "value"))])

\* struct Status
de_Status(j) ==
    IF j.kind # "object" THEN Err ELSE AllOk([code |-> de_String(Get(j, "code"))])

\* Vec<ValueWrapper>
de_Vec_ValueWrapper(j) ==
    IF j.kind # "array" THEN Err ELSE AllOk([i \in DOMAIN j.data |-> de_ValueWrapper(j.data[i])])

\* struct ResolutionsPerAuthority
de_ResolutionsPerAuthority(j) ==
    IF j.kind # "object"
    THEN Err
    ELSE AllOk([authority |-> de_String(Get(j, "authority")),
                status |-> de_Status(Get(j, "status")),
                values |-> de_Vec_ValueWrapper(Get(j, "values"))])

\* Vec<ResolutionsPerAuthority>
de_Vec_ResolutionsPerAuthority(j) ==
    IF j.kind # "array"
    THEN Err
    ELSE AllOk([i \in DOMAIN j.data |-> de_ResolutionsPerAuthority(j.data[i])])

\* struct Resolution
de_Resolution(j) ==
    IF j.kind # "object"
    THEN Err
    ELSE AllOk([resolutions_per_authority |->
                  de_Vec_ResolutionsPerAuthority(Get(j, "resolutionsPerAuthority"))])

opt_Resolution(j) == IF IsAbsent(j) THEN Ok(None) ELSE OptOf(de_Resolution(j))

\* struct Slot
de_Slot(j) ==
    IF j.kind # "object"
    THEN Err
    ELSE AllOk([name |-> de_String(Get(j, "name")),
                value |-> opt_String(Get(j, "value")),
                confirmation_status |-> opt_String(Get(j, "confirmationStatus")),
                resolutions |-> opt_Resolution(Get(j, "resolutions"))])

\* HashMap<String, Slot>
de_Map_Slot(j) ==
    IF j.kind # "object" THEN Err ELSE AllOk([k \in DOMAIN j.data |-> de_Slot(j.data[k])])

opt_Map_Slot(j) == IF IsAbsent(j) THEN Ok(None) ELSE OptOf(de_Map_Slot(j))

\* An enumeration field: the JSON value must be a string.
de_Enum(E, j) == IF j.kind = "string" THEN Deserialize(E, j.data) ELSE Err

\* struct Intent
de_Intent(j) ==
    IF j.kind # "object"
    THEN Err
    ELSE AllOk([name |-> de_Enum("IntentType", Get(j, "name")),
                confirmation_status |-> opt_String(Get(j, "confirmationStatus")),
                slots |-> opt_Map_Slot(Get(j, "slots"))])

opt_Intent(j) == IF IsAbsent(j) THEN Ok(None) ELSE OptOf(de_Intent(j))

\* struct Request
de_Request(j) ==
    IF j.kind # "object"
    THEN Err
    ELSE AllOk([request_type |-> de_Enum("RequestType", Get(j, "type")),
                request_id |-> de_String(Get(j, "requestId")),
                timestamp |-> de_String(Get(j, "timestamp")),
                locale |-> de_Enum("Locale", Get(j, "locale")),
                intent |-> opt_Intent(Get(j, "intent")),
                reason |-> opt_String(Get(j, "reason")),
                dialog_state |-> opt_String(Get(j, "dialogState"))])

\* struct System
de_System(j) ==
    IF j.kind # "object"
    THEN Err
    ELSE AllOk([api_access_token |-> opt_String(Get(j, "apiAccessToken")),
                device |-> opt_Device(Get(j, "device")),
                application |-> opt_Application(Get(j, "application"))])

\* struct AudioPlayer
de_AudioPlayer(j) ==
    IF j.kind # "object"
    THEN Err
    ELSE AllOk([token |-> opt_String(Get(j, "token")),
                offset_in_milliseconds |-> opt_u64(Get(j, "offsetInMilliseconds")),
                player_activity |-> opt_String(Get(j, "playerActivity"))])

opt_AudioPlayer(j) == IF IsAbsent(j) THEN Ok(None) ELSE OptOf(de_AudioPlayer(j))

\* Mutant: #[serde(deny_unknown_fields)] on Context.
de_Context_deny_unknown_fields(j) ==
    IF j.kind # "object"
    THEN Err
    ELSE IF DOMAIN j.data \subseteq {"System", "AudioPlayer"}
         THEN AllOk([system |-> de_System(Get(j, "System")),
                     audio_player |-> opt_AudioPlayer(Get(j, "AudioPlayer"))])
         ELSE Err

\* struct Context
de_Context(j) ==
    IF j.kind # "object"
    THEN Err
    ELSE AllOk([system |-> de_System(Get(j, "System")),
                audio_player |-> opt_AudioPlayer(Get(j, "AudioPlayer"))])

\* Mutant: the version may be missing or of any shape.
de_RequestEnvelope_any_version(j) ==
    IF j.kind # "object"
    THEN Err
    ELSE AllOk([version |-> Ok(<<>>),
                session |-> opt_Session(Get(j, "session")),
                request |-> de_Request(Get(j, "request")),
                context |-> de_Context(Get(j, "context"))])

\* struct RequestEnvelope
de_RequestEnvelope(j) ==
    IF j.kind # "object"
    THEN Err
    ELSE AllOk([version |-> de_String(Get(j, "version")),
                session |-> opt_Session(Get(j, "session")),
                request |-> de_Request(Get(j, "request")),
                context |-> de_Context(Get(j, "context"))])

\* ---------------------------------------------------------------- accessors

\* Intent::get_slot
get_slot(intent, name) ==
    IF ~IsSome(intent.slots)
    THEN None
    ELSE IF name \in DOMAIN Unwrap(intent.slots)
         THEN Some(Unwrap(intent.slots)[name])
         ELSE None

\* Mutant: a request without an intent reports the Other intent of the empty name.
intent_type_or_other(e) ==
    IF IsSome(e.request.intent) THEN Some(Unwrap(e.request.intent).name) ELSE Some(Other(<<>>))

\* RequestEnvelope::intent_type
intent_type(e) ==
    IF IsSome(e.request.intent) THEN Some(Unwrap(e.request.intent).name) ELSE None

\* Mutant: a slot without a value yields the empty string.
slot_value_or_default(e, slot) ==
    IF ~IsSome(e.request.intent)
    THEN None
    ELSE LET s == get_slot(Unwrap(e.request.intent), slot)
         IN IF ~IsSome(s)
            THEN None
            ELSE IF IsSome(Unwrap(s).value) THEN Unwrap(s).value ELSE Some(<<>>)

\* RequestEnvelope::slot_value
slot_value(e, slot) ==
    IF ~IsSome(e.request.intent)
    THEN None
    ELSE LET s == get_slot(Unwrap(e.request.intent), slot)
         IN IF ~IsSome(s) THEN None ELSE Unwrap(s).value

\* Mutant: a key the session does not hold yields the empty string.
attribute_value_or_default(e, key) ==
    IF ~IsSome(e.session)
    THEN None
    ELSE IF ~IsSome(Unwrap(e.session).attributes)
         THEN None
         ELSE IF key \in DOMAIN Unwrap(Unwrap(e.session).attributes)
              THEN Some(Unwrap(Unwrap(e.session).attributes)[key])
              ELSE Some(<<>>)

\* RequestEnvelope::attribute_value
attribute_value(e, key) ==
    IF ~IsSome(e.session)
    THEN None
    ELSE IF ~IsSome(Unwrap(e.session).attributes)
         THEN None
         ELSE IF key \in DOMAIN Unwrap(Unwrap(e.session).attributes)
              THEN Some(Unwrap(Unwrap(e.session).attributes)[key])
              ELSE None

\* Mutant: a request without a session counts as new.
is_new_without_session(e) == IF IsSome(e.session) THEN Unwrap(e.session).new ELSE TRUE

\* RequestEnvelope::is_new
is_new(e) == IF IsSome(e.session) THEN Unwrap(e.session).new ELSE FALSE

\* ---------------------------------------------------------------- request documents

Str_1_0 == <<"1",".","0">>

Str_id == <<"i","d">>

Str_NONE == <<"N","O","N","E">>

Str_IDLE == <<"I","D","L","E">>

Str_bob == <<"b","o","b">>

Str_in_rainbows == <<"i","n"," ","r","a","i","n","b","o","w","s">>

Str_Jupiter == <<"J","u","p","i","t","e","r">>

Str_timestamp == <<"2","0","1","8","-","1","2","-","0","3","T","0","0",":","3","3",":","5","8","Z">>

Str_hello == <<"h","e","l","l","o">>

Str_PlaybackAction == <<"A","M","A","Z","O","N",".","P","l","a","y","b","a","c","k","A","c","t","i","o","n","<","o","b","j","e","c","t","@","M","u","s","i","c","C","r","e","a","t","i","v","e","W","o","r","k",">">>

\* "context" of the test requests: System with fields the model declares and
\* fields it does not, an AudioPlayer and a Viewport.
ContextJson ==
    JObj([System |-> JObj([application |-> JObj([applicationId |-> JStr(Str_id)]),
                           user |-> JObj([userId |-> JStr(Str_id)]),
                           device |-> JObj([deviceId |-> JStr(Str_id),
                                            supportedInterfaces |-> JObj(<<>>)]),
                           apiEndpoint |-> JStr(Str_id),
                           apiAccessToken |-> JStr(Str_id)]),
          AudioPlayer |-> JObj([playerActivity |-> JStr(Str_IDLE)]),
          Viewport |-> JObj([shape |-> JStr(Str_id), dpi |-> JNum(160)])])

\* The "attributes" member of a session: none, null, empty, one or two keys.
AttributeMembers ==
    { <<>>,
      [attributes |-> JNull],
      [attributes |-> JObj(<<>>)],
      [attributes |-> JObj([lastSpeech |-> JStr(Str_Jupiter)])],
      [attributes |-> JObj([lastSpeech |-> JStr(Str_Jupiter), attr |-> JStr(Str_bob)])] }

\* The "session" member of an envelope: none, or a session.
SessionMembers ==
    { <<>> } \cup
    { [session |-> JObj([new |-> JBool(b),
                         sessionId |-> JStr(Str_id),
                         application |-> JObj([applicationId |-> JStr(Str_id)]),
                         user |-> JObj([userId |-> JStr(Str_id)])] @@ a)] :
        b \in BOOLEAN, a \in AttributeMembers }

\* A slot object named n, with a value or without one.
SlotJson(n, value) ==
    JObj([name |-> JStr(n), confirmationStatus |-> JStr(Str_NONE)] @@ value)

\* The "resolutions" member of a slot: one authority with one matched value.
ResolutionJson ==
    JObj([resolutionsPerAuthority |->
            JArr(<<JObj([authority |-> JStr(Str_id),
                         status |-> JObj([code |-> JStr(Str_id)]),
                         values |-> JArr(<<JObj([value |-> JObj([name |-> JStr(Str_bob),
                                                                 id |-> JStr(Str_id)])])>>)])>>)])

\* The "slots" member of an intent: none, empty, the slots of req_with_slots
\* (with and without the value, and with resolutions) and of with_playback_intent.
SlotMembers ==
    { <<>>,
      [slots |-> JObj(<<>>)],
      [slots |-> JObj([name |-> SlotJson(<<"n","a","m","e">>, [value |-> JStr(Str_bob)])])],
      [slots |-> JObj([name |-> SlotJson(<<"n","a","m","e">>, <<>>)])],
      [slots |-> JObj([name |-> SlotJson(<<"n","a","m","e">>,
                                         [value |-> JStr(Str_bob),
                                          resolutions |-> ResolutionJson])])],
      [slots |-> JObj(("object.era" :> SlotJson(<<"o","b","j","e","c","t",".","e","r","a">>, <<>>))
                      @@ ("object.name" :>
                            SlotJson(<<"o","b","j","e","c","t",".","n","a","m","e">>,
                                     [value |-> JStr(Str_in_rainbows),
                                      source |-> JStr(Str_id),
                                      slotValue |-> JObj([type |-> JStr(Str_id),
                                                          value |-> JStr(Str_in_rainbows)])])))] }

\* The intent names a request may carry: every known wire string, and names
\* of the skill's own.
IntentNames ==
    KnownWires("IntentType") \cup {Str_hello, Str_PlaybackAction, <<>>}

\* The "intent" member of a request: none, or an intent.
IntentMembers ==
    { <<>> } \cup
    { [intent |-> JObj([name |-> JStr(n), confirmationStatus |-> JStr(Str_NONE)] @@ s)] :
        n \in IntentNames, s \in SlotMembers }

\* A well-formed request object with intent member i.
RequestJson(i) ==
    JObj([type |-> JStr(IdentChars[2][2]),
          requestId |-> JStr(Str_id),
          timestamp |-> JStr(Str_timestamp),
          locale |-> JStr(LocaleAsStrArms[7][2])] @@ i)

\* The request documents: version, context and request, with or without a
\* session, an intent, slots and attributes.
RequestJsons ==
    { JObj([version |-> JStr(Str_1_0),
            context |-> ContextJson,
            request |-> RequestJson(i)] @@ s) :
        s \in SessionMembers, i \in IntentMembers }

\* Documents that are not request envelopes: not an object; version, request
\* or context missing or of the wrong shape; an intent name that is not a
\* string, slots that are not an object, a session without its "new" flag.
MalformedJsons ==
    { JNull,
      JObj([version |-> JStr(Str_1_0), context |-> ContextJson]),
      JObj([context |-> ContextJson, request |-> RequestJson(<<>>)]),
      JObj([version |-> JNum(1), context |-> ContextJson, request |-> RequestJson(<<>>)]),
      JObj([version |-> JStr(Str_1_0), request |-> RequestJson(<<>>)]),
      JObj([version |-> JStr(Str_1_0), context |-> JArr(<<>>), request |-> RequestJson(<<>>)]),
      JObj([version |-> JStr(Str_1_0), context |-> ContextJson, request |-> JStr(Str_hello)]),
      JObj([version |-> JStr(Str_1_0), context |-> ContextJson,
            request |-> RequestJson([intent |-> JObj([name |-> JNum(1)])])]),
      JObj([version |-> JStr(Str_1_0), context |-> ContextJson,
            request |-> RequestJson([intent |-> JObj([name |-> JStr(Str_hello),
                                                      slots |-> JArr(<<>>)])])]),
      JObj([version |-> JStr(Str_1_0), context |-> ContextJson,
            request |-> RequestJson(<<>>),
            session |-> JObj([sessionId |-> JStr(Str_id),
                              application |-> JObj([applicationId |-> JStr(Str_id)]),
                              user |-> JObj([userId |-> JStr(Str_id)])])]) }

\* The names asked of slot_value and attribute_value.
SlotNames == {"name", "object.name", "object.era", "missing"}

AttributeKeys == {"lastSpeech", "attr", "missing"}

\* ---------------------------------------------------------------- request machine

RequestInit ==
    /\ doc = None
    /\ env = None
    /\ rpc = "idle"
    /\ result = None

\* serde_json::from_value::<RequestEnvelope>(j)
FromValue(j) ==
    /\ rpc = "idle"
    /\ doc' = Some(j)
    /\ LET r == de_RequestEnvelope(j)
       IN /\ env' = IF r.ok THEN Some(r.value) ELSE None
          /\ rpc' = IF r.ok THEN "decoded" ELSE "failed"
    /\ result' = None
    /\ UNCHANGED <<codecVars, responseVars>>

\* The envelope is dropped.
Drop ==
    /\ rpc # "idle"
    /\ doc' = None
    /\ env' = None
    /\ rpc' = "idle"
    /\ result' = None
    /\ UNCHANGED <<codecVars, responseVars>>

\* A call of an accessor on the decoded envelope.
Call(op, arg, ret) ==
    /\ rpc = "decoded"
    /\ result' = Some([op |-> op, arg |-> arg, ret |-> ret])
    /\ UNCHANGED <<doc, env, rpc>>
    /\ UNCHANGED <<codecVars, responseVars>>

IntentTypeCall == Call("intent_type", "", intent_type(Unwrap(env)))

SlotValueCall(slot) == Call("slot_value", slot, slot_value(Unwrap(env), slot))

AttributeValueCall(key) == Call("attribute_value", key, attribute_value(Unwrap(env), key))

IsNewCall == Call("is_new", "", is_new(Unwrap(env)))

\* ---------------------------------------------------------------- serialization

\* A struct field that is always written.
Member(k, j) == k :> j

\* An Option field with #[serde(skip_serializing_if = "Option::is_none")]:
\* None writes no key.
SkipNone(k, jo) == IF jo = None THEN <<>> ELSE k :> Unwrap(jo)

\* An Option field without the attribute: None is written as null.
NullNone(k, jo) == k :> (IF jo = None THEN JNull ELSE Unwrap(jo))

\* Serialize for an enumeration: its wire string.
ser_Enum(E, v) == JStr(Serialize(E, v))

ser_opt_String(o) == IF IsSome(o) THEN Some(JStr(Unwrap(o))) ELSE None

ser_opt_u16(o) == IF IsSome(o) THEN Some(JNum(Unwrap(o))) ELSE None

ser_opt_Enum(E, o) == IF IsSome(o) THEN Some(ser_Enum(E, Unwrap(o))) ELSE None

\* HashMap<String, String>
ser_Map_String(m) == JObj([k \in DOMAIN m |-> JStr(m[k])])

ser_opt_Map_String(o) == IF IsSome(o) THEN Some(ser_Map_String(Unwrap(o))) ELSE None

\* Vec<String>
ser_Vec_String(v) == JArr([i \in DOMAIN v |-> JStr(v[i])])

ser_opt_Vec_String(o) == IF IsSome(o) THEN Some(ser_Vec_String(Unwrap(o))) ELSE None

\* enum Version: V1_0 is renamed "1.0".
VersionArms == << <<"V1_0", <<"1", ".", "0">>>> >>

ser_Version(v) == JStr(derive_serialize(VersionArms, v))

\* request::Value
ser_Value(v) == JObj(Member("name", JStr(v.name)) @@ Member("id", JStr(v.id)))

\* request::ValueWrapper
ser_ValueWrapper(w) == JObj(Member("value", ser_Value(w.value)))

\* request::ResolutionsPerAuthority, with its Status
ser_ResolutionsPerAuthority(r) ==
    JObj(Member("authority", JStr(r.authority))
         @@ Member("status", JObj(Member("code", JStr(r.status.code))))
         @@ Member("values", JArr([i \in DOMAIN r.values |-> ser_ValueWrapper(r.values[i])])))

\* request::Resolution
ser_Resolution(r) ==
    JObj(Member("resolutionsPerAuthority",
                JArr([i \in DOMAIN r.resolutions_per_authority |->
                        ser_ResolutionsPerAuthority(r.resolutions_per_authority[i])])))

ser_opt_Resolution(o) == IF IsSome(o) THEN Some(ser_Resolution(Unwrap(o))) ELSE None

\* request::Slot: "value" is skipped when None, the other options are not.
ser_Slot(s) ==
    JObj(Member("name", JStr(s.name))
         @@ SkipNone("value", ser_opt_String(s.value))
         @@ NullNone("confirmationStatus", ser_opt_String(s.confirmation_status))
         @@ NullNone("resolutions", ser_opt_Resolution(s.resolutions)))

\* ---------------------------------------------------------------- display, audioplayer

\* display::ImageInstance
ser_ImageInstance(i) ==
    JObj(Member("url", JStr(i.url))
         @@ SkipNone("size", ser_opt_Enum("ImageSize", i.size))
         @@ SkipNone("widthPixels", ser_opt_u16(i.width_pixels))
         @@ SkipNone("heightPixels", ser_opt_u16(i.height_pixels)))

\* display::Image
ser_display_Image(i) ==
    JObj(SkipNone("contentDescription", ser_opt_String(i.content_description))
         @@ Member("sources", JArr([n \in DOMAIN i.sources |-> ser_ImageInstance(i.sources[n])])))

ser_opt_display_Image(o) == IF IsSome(o) THEN Some(ser_display_Image(Unwrap(o))) ELSE None

\* audioplayer::AudioItemMetadata
ser_AudioItemMetadata(m) ==
    JObj(SkipNone("title", ser_opt_String(m.title))
         @@ SkipNone("subtitle", ser_opt_String(m.subtitle))
         @@ SkipNone("art", ser_opt_display_Image(m.art))
         @@ SkipNone("backgroundImage", ser_opt_display_Image(m.background_image)))

ser_opt_AudioItemMetadata(o) ==
    IF IsSome(o) THEN Some(ser_AudioItemMetadata(Unwrap(o))) ELSE None

\* audioplayer::CaptionData: "type" is skipped when None, "content" is not.
ser_CaptionData(c) ==
    JObj(SkipNone("type", ser_opt_String(c.data_type))
         @@ NullNone("content", ser_opt_String(c.content)))

ser_opt_CaptionData(o) == IF IsSome(o) THEN Some(ser_CaptionData(Unwrap(o))) ELSE None

\* audioplayer::Stream
ser_Stream(s) ==
    JObj(Member("url", JStr(s.url))
         @@ Member("token", JStr(s.token))
         @@ Member("offsetInMilliseconds", JNum(s.offset_in_milliseconds))
         @@ SkipNone("expectedPreviousToken", ser_opt_String(s.expected_previous_token))
         @@ SkipNone("captionData", ser_opt_CaptionData(s.caption_data)))

\* audioplayer::AudioItem
ser_AudioItem(a) ==
    JObj(Member("stream", ser_Stream(a.stream))
         @@ SkipNone("metadata", ser_opt_AudioItemMetadata(a.metadata)))

\* audioplayer::PlayDirective
ser_PlayDirective(p) ==
    JObj(Member("audioItem", ser_AudioItem(p.audio_item))
         @@ Member("playBehavior", ser_Enum("PlayBehavior", p.play_behavior)))

\* ---------------------------------------------------------------- response structs

\* response::Image
ser_Image(i) ==
    JObj(SkipNone("smallImageUrl", ser_opt_String(i.small_image_url))
         @@ SkipNone("largeImageUrl", ser_opt_String(i.large_image_url)))

ser_opt_Image(o) == IF IsSome(o) THEN Some(ser_Image(Unwrap(o))) ELSE None

\* struct Card (no rename_all: the keys are the field names, "type" renamed)
ser_Card(c) ==
    JObj(Member("type", ser_Enum("CardType", c.card_type))
         @@ SkipNone("title", ser_opt_String(c.title))
         @@ SkipNone("content", ser_opt_String(c.content))
         @@ SkipNone("text", ser_opt_String(c.text))
         @@ SkipNone("image", ser_opt_Image(c.image))
         @@ SkipNone("permissions", ser_opt_Vec_String(c.permissions)))

ser_opt_Card(o) == IF IsSome(o) THEN Some(ser_Card(Unwrap(o))) ELSE None

\* struct Speech
ser_Speech(s) ==
    JObj(Member("type", ser_Enum("SpeechType", s.speech_type))
         @@ SkipNone("text", ser_opt_String(s.text))
         @@ SkipNone("ssml", ser_opt_String(s.ssml))
         @@ SkipNone("playBehavior", ser_opt_Enum("PlayBehavior", s.play_behavior)))

ser_opt_Speech(o) == IF IsSome(o) THEN Some(ser_Speech(Unwrap(o))) ELSE None

\* struct Reprompt
ser_Reprompt(r) == JObj(Member("outputSpeech", ser_Speech(r.output_speech)))

ser_opt_Reprompt(o) == IF IsSome(o) THEN Some(ser_Reprompt(Unwrap(o))) ELSE None

\* The values of enum Directive.
Directive_Play(p) == [variant |-> "Play", play |-> Some(p), value |-> JNull]

Directive_Stop == [variant |-> "Stop", play |-> None, value |-> JNull]

Directive_Other(j) == [variant |-> "Other", play |-> None, value |-> j]

Str_AudioPlayer_Play == <<"A","u","d","i","o","P","l","a","y","e","r",".","P","l","a","y">>

Str_AudioPlayer_Stop == <<"A","u","d","i","o","P","l","a","y","e","r",".","S","t","o","p">>

\* Serialize for Directive: #[serde(tag = "type")] writes the renamed variant
\* under "type" beside the payload's fields; the untagged Other writes its value.
ser_Directive(d) ==
    CASE d.variant = "Play" ->
           JObj(Member("type", JStr(Str_AudioPlayer_Play)) @@ ser_PlayDirective(Unwrap(d.play)).data)
      [] d.variant = "Stop" -> JObj(Member("type", JStr(Str_AudioPlayer_Stop)))
      [] d.variant = "Other" -> d.value

\* Mutant: the directives are written last first.
ser_Vec_Directive_reversed(v) ==
    JArr([i \in DOMAIN v |-> ser_Directive(v[Len(v) + 1 - i])])

\* Vec<Directive>
ser_Vec_Directive(v) == JArr([i \in DOMAIN v |-> ser_Directive(v[i])])

ser_opt_Vec_Directive(o) == IF IsSome(o) THEN Some(ser_Vec_Directive(Unwrap(o))) ELSE None

\* struct Response
ser_Response(r) ==
    JObj(SkipNone("outputSpeech", ser_opt_Speech(r.output_speech))
         @@ SkipNone("card", ser_opt_Card(r.card))
         @@ SkipNone("reprompt", ser_opt_Reprompt(r.reprompt))
         @@ Member("shouldEndSession", JBool(r.should_end_session))
         @@ SkipNone("directives", ser_opt_Vec_Directive(r.directives)))

\* struct ResponseEnvelope
ser_ResponseEnvelope(e) ==
    JObj(Member("version", ser_Version(e.version))
         @@ SkipNone("sessionAttributes", ser_opt_Map_String(e.session_attributes))
         @@ Member("response", ser_Response(e.response)))

\* ---------------------------------------------------------------- builders

\* Speech::plain
Speech_plain(s) ==
    [speech_type |-> Unit("PlainText"), text |-> Some(s), ssml |-> None, play_behavior |-> None]

\* Speech::ssml
Speech_ssml(s) ==
    [speech_type |-> Unit("SSML"), text |-> None, ssml |-> Some(s), play_behavior |-> None]

\* Image::new and its two setters
Image_new == [small_image_url |-> None, large_image_url |-> None]

Image_small_image_url(i, url) == [i EXCEPT !.small_image_url = Some(url)]

Image_large_image_url(i, url) == [i EXCEPT !.large_image_url = Some(url)]

\* Card::simple
Card_simple(title, text) ==
    [card_type |-> Unit("Simple"), title |-> Some(title), content |-> Some(text),
     text |-> None, image |-> None, permissions |-> None]

\* Card::standard
Card_standard(title, text, image) ==
    [card_type |-> Unit("Standard"), title |-> Some(title), content |-> None,
     text |-> Some(text), image |-> Some(image), permissions |-> None]

\* Card::link_account
Card_link_account ==
    [card_type |-> Unit("LinkAccount"), title |-> None, content |-> None,
     text |-> None, image |-> None, permissions |-> None]

\* Card::ask_for_permission
Card_ask_for_permission(permissions) ==
    [card_type |-> Unit("AskForPermissionsConsent"), title |-> None, content |-> None,
     text |-> None, image |-> None, permissions |-> Some(permissions)]

\* Mutant: the session always ends.
ResponseEnvelope_new_always_ends(should_end) ==
    [version |-> Unit("V1_0"),
     session_attributes |-> None,
     response |-> [output_speech |-> None, card |-> None, reprompt |-> None,
                   should_end_session |-> TRUE, directives |-> None]]

\* ResponseEnvelope::new
ResponseEnvelope_new(should_end) ==
    [version |-> Unit("V1_0"),
     session_attributes |-> None,
     response |-> [output_speech |-> None, card |-> None, reprompt |-> None,
                   should_end_session |-> should_end, directives |-> None]]

\* Mutant: setting the speech starts from an envelope without attributes.
ResponseEnvelope_speech_resets_attributes(e, speech) ==
    [e EXCEPT !.response.output_speech = Some(speech), !.session_attributes = None]

\* ResponseEnvelope::speech
ResponseEnvelope_speech(e, speech) == [e EXCEPT !.response.output_speech = Some(speech)]

\* Mutant: setting the card drops the speech.
ResponseEnvelope_card_drops_speech(e, card) ==
    [e EXCEPT !.response.card = Some(card), !.response.output_speech = None]

\* ResponseEnvelope::card
ResponseEnvelope_card(e, card) == [e EXCEPT !.response.card = Some(card)]

\* Mutant: the title is spoken instead of the text.
ResponseEnvelope_simple_speaks_title(title, text) ==
    ResponseEnvelope_speech(ResponseEnvelope_card(ResponseEnvelope_new(TRUE),
                                                  Card_simple(title, text)),
                            Speech_plain(title))

\* ResponseEnvelope::simple
ResponseEnvelope_simple(title, text) ==
    ResponseEnvelope_speech(ResponseEnvelope_card(ResponseEnvelope_new(TRUE),
                                                  Card_simple(title, text)),
                            Speech_plain(text))

\* ResponseEnvelope::new_simple
ResponseEnvelope_new_simple(title, text) == ResponseEnvelope_simple(title, text)

\* ResponseEnvelope::end
ResponseEnvelope_end == ResponseEnvelope_new(TRUE)

\* HashMap::insert
insert(h, key, v) == [k \in DOMAIN h \cup {key} |-> IF k = key THEN v ELSE h[k]]

\* Mutant: every write starts a new map.
add_attribute_fresh_map(e, key, v) ==
    [e EXCEPT !.session_attributes = Some(insert(<<>>, key, v))]

\* ResponseEnvelope::add_attribute
add_attribute(e, key, v) ==
    IF IsSome(e.session_attributes)
    THEN [e EXCEPT !.session_attributes = Some(insert(Unwrap(e.session_attributes), key, v))]
    ELSE [e EXCEPT !.session_attributes = Some(insert(<<>>, key, v))]

\* ---------------------------------------------------------------- response deserialization

de_i64(j) == IF j.kind = "number" THEN Ok(j.data) ELSE Err

de_u16(j) == IF j.kind = "number" /\ j.data >= 0 /\ j.data <= 65535 THEN Ok(j.data) ELSE Err

opt_u16(j) == IF IsAbsent(j) THEN Ok(None) ELSE OptOf(de_u16(j))

opt_Enum(E, j) == IF IsAbsent(j) THEN Ok(None) ELSE OptOf(de_Enum(E, j))

\* Vec<String>
de_Vec_String(j) ==
    IF j.kind # "array" THEN Err ELSE AllOk([i \in DOMAIN j.data |-> de_String(j.data[i])])

opt_Vec_String(j) == IF IsAbsent(j) THEN Ok(None) ELSE OptOf(de_Vec_String(j))

\* enum Version
de_Version(j) == IF j.kind = "string" THEN derive_deserialize(VersionArms, j.data) ELSE Err

\* display::ImageInstance
de_ImageInstance(j) ==
    IF j.kind # "object"
    THEN Err
    ELSE AllOk([url |-> de_String(Get(j, "url")),
                size |-> opt_Enum("ImageSize", Get(j, "size")),
                width_pixels |-> opt_u16(Get(j, "widthPixels")),
                height_pixels |-> opt_u16(Get(j, "heightPixels"))])

\* Vec<ImageInstance>
de_Vec_ImageInstance(j) ==
    IF j.kind # "array" THEN Err ELSE AllOk([i \in DOMAIN j.data |-> de_ImageInstance(j.data[i])])

\* display::Image
de_display_Image(j) ==
    IF j.kind # "object"
    THEN Err
    ELSE AllOk([content_description |-> opt_String(Get(j, "contentDescription")),
                sources |-> de_Vec_ImageInstance(Get(j, "sources"))])

opt_display_Image(j) == IF IsAbsent(j) THEN Ok(None) ELSE OptOf(de_display_Image(j))

\* audioplayer::AudioItemMetadata
de_AudioItemMetadata(j) ==
    IF j.kind # "object"
    THEN Err
    ELSE AllOk([title |-> opt_String(Get(j, "title")),
                subtitle |-> opt_String(Get(j, "subtitle")),
                art |-> opt_display_Image(Get(j, "art")),
                background_image |-> opt_display_Image(Get(j, "backgroundImage"))])

opt_AudioItemMetadata(j) == IF IsAbsent(j) THEN Ok(None) ELSE OptOf(de_AudioItemMetadata(j))

\* audioplayer::CaptionData
de_CaptionData(j) ==
    IF j.kind # "object"
    THEN Err
    ELSE AllOk([data_type |-> opt_String(Get(j, "type")),
                content |-> opt_String(Get(j, "content"))])

opt_CaptionData(j) == IF IsAbsent(j) THEN Ok(None) ELSE OptOf(de_CaptionData(j))

\* audioplayer::Stream
de_Stream(j) ==
    IF j.kind # "object"
    THEN Err
    ELSE AllOk([url |-> de_String(Get(j, "url")),
                token |-> de_String(Get(j, "token")),
                offset_in_milliseconds |-> de_i64(Get(j, "offsetInMilliseconds")),
                expected_previous_token |-> opt_String(Get(j, "expectedPreviousToken")),
                caption_data |-> opt_CaptionData(Get(j, "captionData"))])

\* audioplayer::AudioItem
de_AudioItem(j) ==
    IF j.kind # "object"
    THEN Err
    ELSE AllOk([stream |-> de_Stream(Get(j, "stream")),
                metadata |-> opt_AudioItemMetadata(Get(j, "metadata"))])

\* audioplayer::PlayDirective
de_PlayDirective(j) ==
    IF j.kind # "object"
    THEN Err
    ELSE AllOk([audio_item |-> de_AudioItem(Get(j, "audioItem")),
                play_behavior |-> de_Enum("PlayBehavior", Get(j, "playBehavior"))])

\* The tagged variants of Directive, in declaration order, with their renames;
\* both are compiled only with the feature "audioplayer".
DirectiveArms(feature) ==
    IF feature
    THEN << <<"Play", Str_AudioPlayer_Play>>, <<"Stop", Str_AudioPlayer_Stop>> >>
    ELSE << >>

\* The variant identifier read from the value under "type": a string selects
\* the variant of that name, an unsigned integer the variant of that index;
\* "" when there is no tag or it selects nothing.
DirectiveTag(feature, j) ==
    IF j.kind # "object"
    THEN ""
    ELSE IF "type" \notin DOMAIN j.data
         THEN ""
         ELSE IF j.data["type"].kind = "string"
              THEN IF MatchLiteral(DirectiveArms(feature), j.data["type"].data) = 0
                   THEN ""
                   ELSE DirectiveArms(feature)[MatchLiteral(DirectiveArms(feature),
                                                            j.data["type"].data)][1]
              ELSE IF j.data["type"].kind = "number"
                   THEN IF j.data["type"].data \in 0 .. (Len(DirectiveArms(feature)) - 1)
                        THEN DirectiveArms(feature)[j.data["type"].data + 1][1]
                        ELSE ""
                   ELSE ""

\* Deserialize for Directive: the tagged variants are tried first; when the
\* tag or the payload does not fit, the untagged Other takes the whole value.
de_Directive(feature, j) ==
    CASE DirectiveTag(feature, j) = "Stop" -> Ok(Directive_Stop)
      [] DirectiveTag(feature, j) = "Play" ->
           IF de_PlayDirective(j).ok
           THEN Ok(Directive_Play(de_PlayDirective(j).value))
           ELSE Ok(Directive_Other(j))
      [] OTHER -> Ok(Directive_Other(j))

\* Vec<Directive>
de_Vec_Directive(feature, j) ==
    IF j.kind # "array" THEN Err ELSE AllOk([i \in DOMAIN j.data |-> de_Directive(feature, j.data[i])])

opt_Vec_Directive(feature, j) ==
    IF IsAbsent(j) THEN Ok(None) ELSE OptOf(de_Vec_Directive(feature, j))

\* response::Image
de_Image(j) ==
    IF j.kind # "object"
    THEN Err
    ELSE AllOk([small_image_url |-> opt_String(Get(j, "smallImageUrl")),
                large_image_url |-> opt_String(Get(j, "largeImageUrl"))])

opt_Image(j) == IF IsAbsent(j) THEN Ok(None) ELSE OptOf(de_Image(j))

\* struct Card
de_Card(j) ==
    IF j.kind # "object"
    THEN Err
    ELSE AllOk([card_type |-> de_Enum("CardType", Get(j, "type")),
                title |-> opt_String(Get(j, "title")),
                content |-> opt_String(Get(j, "content")),
                text |-> opt_String(Get(j, "text")),
                image |-> opt_Image(Get(j, "image")),
                permissions |-> opt_Vec_String(Get(j, "permissions"))])

opt_Card(j) == IF IsAbsent(j) THEN Ok(None) ELSE OptOf(de_Card(j))

\* struct Speech
de_Speech(j) ==
    IF j.kind # "object"
    THEN Err
    ELSE AllOk([speech_type |-> de_Enum("SpeechType", Get(j, "type")),
                text |-> opt_String(Get(j, "text")),
                ssml |-> opt_String(Get(j, "ssml")),
                play_behavior |-> opt_Enum("PlayBehavior", Get(j, "playBehavior"))])

opt_Speech(j) == IF IsAbsent(j) THEN Ok(None) ELSE OptOf(de_Speech(j))

\* struct Reprompt
de_Reprompt(j) ==
    IF j.kind # "object"
    THEN Err
    ELSE AllOk([output_speech |-> de_Speech(Get(j, "outputSpeech"))])

opt_Reprompt(j) == IF IsAbsent(j) THEN Ok(None) ELSE OptOf(de_Reprompt(j))

\* struct Response
de_Response(feature, j) ==
    IF j.kind # "object"
    THEN Err
    ELSE AllOk([output_speech |-> opt_Speech(Get(j, "outputSpeech")),
                card |-> opt_Card(Get(j, "card")),
                reprompt |-> opt_Reprompt(Get(j, "reprompt")),
                should_end_session |-> de_bool(Get(j, "shouldEndSession")),
                directives |-> opt_Vec_Directive(feature, Get(j, "directives"))])

\* struct ResponseEnvelope
de_ResponseEnvelope(feature, j) ==
    IF j.kind # "object"
    THEN Err
    ELSE AllOk([version |-> de_Version(Get(j, "version")),
                session_attributes |-> opt_Map_String(Get(j, "sessionAttributes")),
                response |-> de_Response(feature, Get(j, "response"))])

\* ---------------------------------------------------------------- response inputs

MaxWrites == 2

MaxDirectives == 2

Str_T == <<"T">>

Str_B == <<"B">>

Str_v1 == <<"v", "1">>

Str_v2 == <<"v", "2">>

Str_foo == <<"f", "o", "o">>

Str_baaz_png == <<"b", "a", "a", "z", ".", "p", "n", "g">>

Str_WEBVTT == <<"W", "E", "B", "V", "T", "T">>

\* The titles and texts given to the constructors.
Texts == {Str_T, Str_B}

\* The keys and values given to add_attribute.
ResponseKeys == {"k", "attr"}

ResponseVals == {Str_v1, Str_v2}

\* The cards given to card(): standard with an image, with an empty image,
\* link account, permissions.
Cards ==
    { Card_simple(Str_foo, Str_B),
      Card_standard(Str_foo, Str_B,
                    Image_large_image_url(Image_small_image_url(Image_new, Str_baaz_png),
                                          Str_baaz_png)),
      Card_standard(Str_foo, Str_B, Image_new),
      Card_link_account,
      Card_ask_for_permission(<<Str_foo>>) }

\* The speeches given to speech().
Speeches == {Speech_plain(Str_hello), Speech_ssml(Str_foo)}

\* The caption data of a stream: none, empty, complete.
Captions ==
    { None,
      Some([data_type |-> None, content |-> None]),
      Some([data_type |-> Some(Str_WEBVTT), content |-> Some(Str_hello)]) }

\* The metadata of an audio item: none, or a background image only.
Metadatas ==
    { None,
      Some([title |-> None, subtitle |-> None, art |-> None,
            background_image |->
              Some([content_description |-> None,
                    sources |-> << [url |-> Str_baaz_png, size |-> None,
                                    width_pixels |-> None, height_pixels |-> None] >>])]) }

\* The play directives a caller builds.
PlayDirectives ==
    { [audio_item |-> [stream |-> [url |-> Str_baaz_png, token |-> Str_id,
                                   offset_in_milliseconds |-> 0,
                                   expected_previous_token |-> None,
                                   caption_data |-> c],
                       metadata |-> m],
       play_behavior |-> Unit("ReplaceAll")] : c \in Captions, m \in Metadatas }

\* The directives a caller builds with the feature "audioplayer".
TypedDirectives == {Directive_Stop} \cup {Directive_Play(p) : p \in PlayDirectives}

\* Directive documents a caller passes through: an unknown type, no type, a
\* number for the type, not an object, a stop with an extra member, a play
\* without its payload and a complete play.
DirectiveJsons ==
    { JObj([type |-> JStr(Str_hello), token |-> JStr(Str_id)]),
      JObj([token |-> JStr(Str_id), document |-> JObj([version |-> JNum(1)])]),
      JObj([type |-> JNum(1), token |-> JStr(Str_id)]),
      JStr(Str_hello),
      JObj([type |-> JStr(Str_AudioPlayer_Stop), token |-> JStr(Str_id)]),
      JObj([type |-> JStr(Str_AudioPlayer_Play), token |-> JStr(Str_id)]),
      ser_Directive(Directive_Play(CHOOSE p \in PlayDirectives :
                                     p.audio_item.stream.caption_data = None
                                       /\ p.audio_item.metadata = None)) }

\* ---------------------------------------------------------------- response machine

\* No envelope is being built; the feature "audioplayer" is compiled in.
ResponseIdle ==
    /\ audioplayer = TRUE
    /\ resp = None
    /\ made = None
    /\ writes = << >>
    /\ placed = << >>
    /\ emitted = None
    /\ reread = None
    /\ ppc = "idle"

\* The same, for a build with or without the feature "audioplayer".
ResponseInit ==
    /\ audioplayer \in BOOLEAN
    /\ resp = None
    /\ made = None
    /\ writes = << >>
    /\ placed = << >>
    /\ emitted = None
    /\ reread = None
    /\ ppc = "idle"

\* A constructor returned envelope e.
Construction(op, title, text, flag, e) ==
    /\ ppc = "idle"
    /\ resp' = Some(e)
    /\ made' = Some([op |-> op, title |-> title, text |-> text, flag |-> flag])
    /\ ppc' = "built"
    /\ UNCHANGED <<audioplayer, writes, placed, emitted, reread>>
    /\ UNCHANGED <<codecVars, requestVars>>

New(b) == Construction("new", << >>, << >>, b, ResponseEnvelope_new(b))

End == Construction("end", << >>, << >>, TRUE, ResponseEnvelope_end)

Simple(title, text) ==
    Construction("simple", title, text, TRUE, ResponseEnvelope_simple(title, text))

NewSimple(title, text) ==
    Construction("new_simple", title, text, TRUE, ResponseEnvelope_new_simple(title, text))

\* A builder call or a field assignment turned the envelope into e.
Update(e) ==
    /\ ppc = "built"
    /\ resp' = Some(e)
    /\ UNCHANGED <<audioplayer, made, emitted, reread, ppc>>
    /\ UNCHANGED <<codecVars, requestVars>>

SetCard(c) == Update(ResponseEnvelope_card(Unwrap(resp), c)) /\ UNCHANGED <<writes, placed>>

SetSpeech(s) == Update(ResponseEnvelope_speech(Unwrap(resp), s)) /\ UNCHANGED <<writes, placed>>

\* res.response.reprompt = Some(Reprompt { output_speech: s })
SetReprompt(s) ==
    /\ Update([Unwrap(resp) EXCEPT !.response.reprompt = Some([output_speech |-> s])])
    /\ UNCHANGED <<writes, placed>>

AddAttribute(key, v) ==
    /\ Len(writes) < MaxWrites
    /\ Update(add_attribute(Unwrap(resp), key, v))
    /\ writes' = Append(writes, <<key, v>>)
    /\ UNCHANGED placed

\* The directive list of envelope e with d pushed at its end.
push_directive(e, d) ==
    [e EXCEPT !.response.directives =
                IF IsSome(e.response.directives)
                THEN Some(Append(Unwrap(e.response.directives), d))
                ELSE Some(<<d>>)]

\* The caller pushes a directive it built.
PushDirective(d) ==
    /\ audioplayer
    /\ Len(placed) < MaxDirectives
    /\ Update(push_directive(Unwrap(resp), d))
    /\ placed' = Append(placed, [json |-> None, value |-> d])
    /\ UNCHANGED writes

\* The caller pushes a directive it deserialized from document j.
PassDirective(j) ==
    /\ Len(placed) < MaxDirectives
    /\ de_Directive(audioplayer, j).ok
    /\ Update(push_directive(Unwrap(resp), de_Directive(audioplayer, j).value))
    /\ placed' = Append(placed, [json |-> Some(j),
                                 value |-> de_Directive(audioplayer, j).value])
    /\ UNCHANGED writes

\* serde_json::to_value(&res)
ToValue ==
    /\ ppc = "built"
    /\ emitted' = Some(ser_ResponseEnvelope(Unwrap(resp)))
    /\ ppc' = "emitted"
    /\ UNCHANGED <<audioplayer, resp, made, writes, placed, reread>>
    /\ UNCHANGED <<codecVars, requestVars>>

\* serde_json::from_value::<ResponseEnvelope>(emitted)
ResponseFromValue ==
    /\ ppc = "emitted"
    /\ reread' = Some(de_ResponseEnvelope(audioplayer, Unwrap(emitted)))
    /\ ppc' = "reread"
    /\ UNCHANGED <<audioplayer, resp, made, writes, placed, emitted>>
    /\ UNCHANGED <<codecVars, requestVars>>

\* The envelope is dropped.
ResponseDrop ==
    /\ ppc # "idle"
    /\ resp' = None
    /\ made' = None
    /\ writes' = << >>
    /\ placed' = << >>
    /\ emitted' = None
    /\ reread' = None
    /\ ppc' = "idle"
    /\ UNCHANGED audioplayer
    /\ UNCHANGED <<codecVars, requestVars>>

RequestIdle == RequestInit

CodecIdle == CodecInit /\ enumT = "RequestType"

Init == CodecInit /\ RequestIdle /\ ResponseIdle

Next ==
    \/ \E E \in Enums, s \in Inputs : Receive(E, s)
    \/ \E E \in Enums : \E v \in Values(E) : Construct(E, v)
    \/ Decode
    \/ Encode
    \/ IsEnglish
    \/ IsFrench
    \/ IsSpanish
    \/ Parts
    \/ Eq
    \/ Reset

\* The codec: strings received and decoded, values constructed and encoded.
Spec == Init /\ [][Next]_vars

RequestNext ==
    \/ \E j \in RequestJsons \cup MalformedJsons : FromValue(j)
    \/ IntentTypeCall
    \/ \E slot \in SlotNames : SlotValueCall(slot)
    \/ \E key \in AttributeKeys : AttributeValueCall(key)
    \/ IsNewCall
    \/ Drop

\* Request envelopes decoded from JSON and read through the accessors.
InitRequest == CodecIdle /\ RequestInit /\ ResponseIdle

SpecRequest == InitRequest /\ [][RequestNext]_vars


ResponseNext ==
    \/ \E b \in BOOLEAN : New(b)
    \/ End
    \/ \E title \in Texts, text \in Texts : Simple(title, text)
    \/ \E title \in Texts, text \in Texts : NewSimple(title, text)
    \/ \E c \in Cards : SetCard(c)
    \/ \E s \in Speeches : SetSpeech(s)
    \/ \E s \in Speeches : SetReprompt(s)
    \/ \E key \in ResponseKeys, v \in ResponseVals : AddAttribute(key, v)
    \/ ToValue
    \/ ResponseFromValue
    \/ ResponseDrop

\* Response envelopes constructed, built up, serialized and read back.
InitResponse == CodecIdle /\ RequestInit /\ ResponseIdle

SpecResponse == InitResponse /\ [][ResponseNext]_vars

DirectiveNext ==
    \/ \E b \in BOOLEAN : New(b)
    \/ \E d \in TypedDirectives : PushDirective(d)
    \/ \E j \in DirectiveJsons : PassDirective(j)
    \/ ToValue
    \/ ResponseFromValue
    \/ ResponseDrop

\* Directive lists built, serialized and read back, with and without the
\* feature "audioplayer".
InitDirective == CodecIdle /\ RequestInit /\ ResponseInit

SpecDirective == InitDirective /\ [][DirectiveNext]_vars
\* ---------------------------------------------------------------- properties

\* Whether k is a known variant of E.
IsKnownVariant(E, k) == \E i \in DOMAIN Variants(E) : Variants(E)[i] = k

\* The number of hyphens of s.
HyphenCount(s) == Cardinality({i \in DOMAIN s : s[i] = "-"})

\* C1: for every enumeration, decoding a string never fails; it yields the
\* known symbol whose wire string is the input when there is one, and
\* otherwise Other holding the input unmodified (the empty string included).
C1_DecodeTotal ==
    /\ pc # "failed"
    /\ pc = "decoded" =>
         LET s == Unwrap(wire)
             v == Unwrap(val)
         IN IF s \in KnownWires(enumT)
            THEN /\ IsKnownVariant(enumT, v.variant)
                 /\ Serialize(enumT, v) = s
            ELSE v = Other(s)

\* The empty string has been decoded as a CardType.
C1_Witness ==
    /\ pc = "decoded"
    /\ enumT = "CardType"
    /\ wire = Some(<<>>)
    /\ val = Some(Other(<<>>))

\* C2: a known symbol that is encoded and decoded again is the same symbol.
C2_KnownRoundTrip ==
    (pc = "decoded" /\ IsSome(orig) /\ IsKnownVariant(enumT, Unwrap(orig).variant))
        => val = orig

\* PlayBehavior::ReplaceAll went to "REPLACE_ALL" and back.
C2_Witness ==
    /\ pc = "decoded"
    /\ enumT = "PlayBehavior"
    /\ orig = Some(Unit("ReplaceAll"))
    /\ wire = Some(<<"R","E","P","L","A","C","E","_","A","L","L">>)
    /\ val = orig

\* C3: a string that is no known wire string of E decodes to Other of that
\* string, and Other of such a string encodes to that string.
C3_UnknownRoundTrip ==
    /\ (pc = "decoded" /\ Unwrap(wire) \notin KnownWires(enumT))
          => val = Some(Other(Unwrap(wire)))
    /\ (pc = "encoded" /\ Unwrap(val).variant = "Other"
                       /\ Unwrap(val).text \notin KnownWires(enumT))
          => wire = Some(Unwrap(val).text)

\* "FooBar" was received as a CardType, decoded and encoded again.
C3_Witness ==
    /\ pc = "encoded"
    /\ enumT = "CardType"
    /\ input = Some(<<"F","o","o","B","a","r">>)
    /\ val = Some(Other(<<"F","o","o","B","a","r">>))
    /\ wire = input

\* C4: a locale string with at most one hyphen that is parsed and formatted
\* again is the same string.
C4_LocaleRoundTrip ==
    (enumT = "Locale" /\ pc = "encoded" /\ IsSome(input)
                      /\ HyphenCount(Unwrap(input)) <= 1)
        => wire = input

\* "xx-ZZ" (unknown language, unknown region) was parsed and formatted.
C4_Witness ==
    /\ enumT = "Locale"
    /\ pc = "encoded"
    /\ input = Some(<<"x","x","-","Z","Z">>)
    /\ val = Some(Other(<<"x","x","-","Z","Z">>))
    /\ wire = input

C6_LanguageDecides ==
    (enumT = "Locale" /\ pc = "decoded" /\ IsSome(input) /\ IsSome(answer)
                      /\ Unwrap(answer).op # "parts")
        => LET language == Locale_parts(Unwrap(val)).language
               ret == Unwrap(answer).ret
           IN CASE Unwrap(answer).op = "is_english" -> ret <=> (language = Unit("English"))
                [] Unwrap(answer).op = "is_french" -> ret <=> (language = Unit("French"))
                [] Unwrap(answer).op = "is_spanish" -> ret <=> (language = Unit("Spanish"))


\* ---------------------------------------------------------------- request claims

\* The keys of JSON object j.
Keys(j) == DOMAIN j.data

\* The intent name string of the decoded document.
DocIntentName == Unwrap(doc).data["request"].data["intent"].data["name"].data

\* The document in hand has an intent member with a string name.
DocHasIntent ==
    /\ IsSome(doc)
    /\ Unwrap(doc).kind = "object"
    /\ "request" \in DOMAIN Unwrap(doc).data
    /\ Unwrap(doc).data["request"].kind = "object"
    /\ "intent" \in DOMAIN Unwrap(doc).data["request"].data
    /\ Unwrap(doc).data["request"].data["intent"].kind = "object"
    /\ "name" \in DOMAIN Unwrap(doc).data["request"].data["intent"].data
    /\ Unwrap(doc).data["request"].data["intent"].data["name"].kind = "string"

\* "AMAZON.<Name>Intent" for the variant named k.
AmazonIntent(k) == <<"A","M","A","Z","O","N",".">> \o Chars(k) \o <<"I","n","t","e","n","t">>

\* C7: every known IntentType symbol has the wire string "AMAZON.<Name>Intent"
\* of its own name; a request with that string as its intent name decodes to
\* the symbol, and a request with any other intent name decodes without error
\* and intent_type() returns Other holding that name unchanged.
C7_IntentNames ==
    /\ \A i \in DOMAIN Variants("IntentType") :
          Serialize("IntentType", Unit(Variants("IntentType")[i]))
            = AmazonIntent(Variants("IntentType")[i])
    /\ (DocHasIntent /\ Unwrap(doc) \in RequestJsons)
          => /\ rpc # "failed"
             /\ (rpc = "decoded" /\ IsSome(result) /\ Unwrap(result).op = "intent_type")
                   => Unwrap(result).ret =
                        IF \E i \in DOMAIN Variants("IntentType") :
                               DocIntentName = AmazonIntent(Variants("IntentType")[i])
                        THEN Some(Unit(CHOOSE k \in {Variants("IntentType")[i] :
                                                        i \in DOMAIN Variants("IntentType")} :
                                         DocIntentName = AmazonIntent(k)))
                        ELSE Some(Other(DocIntentName))

\* intent_type() was called on a request whose intent is named
\* "AMAZON.PlaybackAction<object@MusicCreativeWork>" and returned Other of it.
C7_Witness ==
    /\ rpc = "decoded"
    /\ DocHasIntent
    /\ DocIntentName = Str_PlaybackAction
    /\ IsSome(result)
    /\ Unwrap(result).op = "intent_type"
    /\ Unwrap(result).ret = Some(Other(Str_PlaybackAction))

\* The slot object stored under key n of the document's intent, or Missing.
DocSlot(n) ==
    IF ~DocHasIntent
    THEN Missing
    ELSE LET slots == Get(Unwrap(doc).data["request"].data["intent"], "slots")
         IN IF slots.kind = "object" THEN Get(slots, n) ELSE Missing

\* C8: slot_value(n) returns the value of the slot stored under key n of the
\* intent's slot mapping when intent, mapping, slot and value are all present,
\* and the empty result when any of them is absent.
C8_SlotValue ==
    (rpc = "decoded" /\ IsSome(result) /\ Unwrap(result).op = "slot_value")
        => LET n == Unwrap(result).arg
               r == Unwrap(result).ret
               e == Unwrap(env)
           IN /\ IF /\ IsSome(e.request.intent)
                    /\ IsSome(Unwrap(e.request.intent).slots)
                    /\ n \in DOMAIN Unwrap(Unwrap(e.request.intent).slots)
                    /\ IsSome(Unwrap(Unwrap(e.request.intent).slots)[n].value)
                 THEN r = Some(Unwrap(Unwrap(Unwrap(e.request.intent).slots)[n].value))
                 ELSE r = None
              /\ IF DocSlot(n).kind = "object" /\ Get(DocSlot(n), "value").kind = "string"
                 THEN r = Some(Get(DocSlot(n), "value").data)
                 ELSE r = None

\* slot_value("object.name") returned "in rainbows".
C8_Witness ==
    /\ rpc = "decoded"
    /\ IsSome(result)
    /\ Unwrap(result).op = "slot_value"
    /\ Unwrap(result).arg = "object.name"
    /\ Unwrap(result).ret = Some(Str_in_rainbows)

\* The attribute mapping of the document's session, or Missing.
DocAttributes ==
    IF IsSome(doc) /\ Unwrap(doc).kind = "object" /\ "session" \in DOMAIN Unwrap(doc).data
    THEN Get(Unwrap(doc).data["session"], "attributes")
    ELSE Missing

\* C9: attribute_value(k) returns the value stored under k in the session's
\* attribute mapping when session, mapping and key are all present, and the
\* empty result when any of them is absent.
C9_AttributeValue ==
    (rpc = "decoded" /\ IsSome(result) /\ Unwrap(result).op = "attribute_value")
        => LET k == Unwrap(result).arg
               r == Unwrap(result).ret
               e == Unwrap(env)
           IN /\ IF /\ IsSome(e.session)
                    /\ IsSome(Unwrap(e.session).attributes)
                    /\ k \in DOMAIN Unwrap(Unwrap(e.session).attributes)
                 THEN r = Some(Unwrap(Unwrap(e.session).attributes)[k])
                 ELSE r = None
              /\ IF DocAttributes.kind = "object" /\ k \in DOMAIN DocAttributes.data
                 THEN r = Some(DocAttributes.data[k].data)
                 ELSE r = None

\* attribute_value("lastSpeech") returned the stored sentence.
C9_Witness ==
    /\ rpc = "decoded"
    /\ IsSome(result)
    /\ Unwrap(result).op = "attribute_value"
    /\ Unwrap(result).arg = "lastSpeech"
    /\ Unwrap(result).ret = Some(Str_Jupiter)

\* C10: is_new() is true exactly when the envelope has a session whose new
\* flag is true; without a session it is false.
C10_IsNew ==
    (rpc = "decoded" /\ IsSome(result) /\ Unwrap(result).op = "is_new")
        => /\ Unwrap(result).ret
                = (IsSome(Unwrap(env).session) /\ Unwrap(Unwrap(env).session).new)
           /\ Unwrap(result).ret
                = ("session" \in DOMAIN Unwrap(doc).data
                     /\ Unwrap(doc).data["session"].data["new"].data = TRUE)

\* is_new() was called on an envelope without a session and returned false.
C10_Witness ==
    /\ rpc = "decoded"
    /\ IsSome(result)
    /\ Unwrap(result).op = "is_new"
    /\ Unwrap(env).session = None
    /\ Unwrap(result).ret = FALSE

\* C11: intent_type() returns a present value exactly when the request carries
\* an intent, and the value is that intent's name.
C11_IntentTypePresent ==
    (rpc = "decoded" /\ IsSome(result) /\ Unwrap(result).op = "intent_type")
        => LET r == Unwrap(result).ret
               req == Unwrap(env).request
           IN /\ IsSome(r) <=> IsSome(req.intent)
              /\ IsSome(r) <=> "intent" \in DOMAIN Unwrap(doc).data["request"].data
              /\ IsSome(r) => Unwrap(r) = Unwrap(req.intent).name

\* intent_type() was called on a request without an intent and returned None.
C11_Witness ==
    /\ rpc = "decoded"
    /\ "intent" \notin DOMAIN Unwrap(doc).data["request"].data
    /\ IsSome(result)
    /\ Unwrap(result).op = "intent_type"
    /\ Unwrap(result).ret = None

\* The member under key k of document j is missing or not of kind shape.
Broken(j, k, shape) == j.kind # "object" \/ k \notin Keys(j) \/ j.data[k].kind # shape

ExtraSlot(s) ==
    JObj(s.data @@ [source |-> JStr(Str_id), slotValue |-> JObj([type |-> JStr(Str_id)])])

\* Intent document i with a member the model does not declare, in it and in
\* each of its slots.
ExtraIntent(i) ==
    JObj((IF "slots" \in Keys(i)
          THEN [i.data EXCEPT !["slots"] =
                                JObj([k \in DOMAIN @.data |-> ExtraSlot(@.data[k])])]
          ELSE i.data)
         @@ [extra |-> JNum(1)])

\* Request document r with undeclared members.
ExtraRequest(r) ==
    JObj((IF "intent" \in Keys(r)
          THEN [r.data EXCEPT !["intent"] = ExtraIntent(@)]
          ELSE r.data)
         @@ [extra |-> JBool(TRUE)])

\* Envelope document j with undeclared members at every level: beside version,
\* under context (Viewports, Extensions), under System, under session, under
\* request, intent and each slot.
WithExtras(j) ==
    JObj([context |->
            JObj([j.data["context"].data EXCEPT
                    !["System"] = JObj(@.data @@ [extra |-> JStr(Str_id)])]
                 @@ [Viewports |-> JArr(<<>>), Extensions |-> JObj(<<>>)]),
          request |-> ExtraRequest(j.data["request"])]
         @@ (IF "session" \in Keys(j)
             THEN [j.data EXCEPT !["session"] = JObj(@.data @@ [extra |-> JNull])]
             ELSE j.data)
         @@ [extra |-> JArr(<<JNum(1)>>)])

\* C19: a valid request envelope decodes, and decodes to the same values, when
\* its JSON carries members the model does not declare, at any level.
C19_UnknownFieldsIgnored ==
    (IsSome(doc) /\ Unwrap(doc) \in RequestJsons)
        => /\ rpc = "decoded"
           /\ "Viewport" \in Keys(Unwrap(doc).data["context"])
           /\ {"Viewports", "Extensions"} \subseteq Keys(WithExtras(Unwrap(doc)).data["context"])
           /\ "extra" \in Keys(WithExtras(Unwrap(doc)).data["request"])
           /\ de_RequestEnvelope(WithExtras(Unwrap(doc))) = Ok(Unwrap(env))

\* The playback request, whose context has a Viewport and whose slot has
\* source and slotValue, was decoded and its slot read.
C19_Witness ==
    /\ rpc = "decoded"
    /\ "Viewport" \in Keys(Unwrap(doc).data["context"])
    /\ DocSlot("object.name").kind = "object"
    /\ {"source", "slotValue"} \subseteq Keys(DocSlot("object.name"))
    /\ IsSome(result)
    /\ Unwrap(result).op = "slot_value"
    /\ Unwrap(result).arg = "object.name"
    /\ Unwrap(result).ret = Some(Str_in_rainbows)

\* ---------------------------------------------------------------- response claims

\* The step is the return of a constructor named in ops.
Constructed(ops) == ppc = "idle" /\ ppc' = "built" /\ Unwrap(made').op \in ops

\* C12: simple(T, B) and new_simple(T, B) yield an envelope that ends the
\* session, with a Simple card of title T and content B and nothing else, a
\* PlainText speech of text B, version 1.0, and no session attributes,
\* reprompt or directives; serialized, it has no sessionAttributes, reprompt
\* or directives key.
C12_Simple ==
    [][ /\ Constructed({"simple", "new_simple"})
           => LET e == Unwrap(resp')
                  T == Unwrap(made').title
                  B == Unwrap(made').text
              IN /\ e.response.should_end_session = TRUE
                 /\ e.response.card
                      = Some([card_type |-> Unit("Simple"), title |-> Some(T),
                              content |-> Some(B), text |-> None, image |-> None,
                              permissions |-> None])
                 /\ e.response.output_speech
                      = Some([speech_type |-> Unit("PlainText"), text |-> Some(B),
                              ssml |-> None, play_behavior |-> None])
                 /\ e.version = Unit("V1_0")
                 /\ e.session_attributes = None
                 /\ e.response.reprompt = None
                 /\ e.response.directives = None
        /\ (ppc = "built" /\ ppc' = "emitted"
              /\ Unwrap(made).op \in {"simple", "new_simple"}
              /\ Unwrap(resp).session_attributes = None
              /\ Unwrap(resp).response.reprompt = None
              /\ Unwrap(resp).response.directives = None)
           => /\ Keys(Unwrap(emitted')) = {"version", "response"}
              /\ Unwrap(emitted').data["version"] = JStr(<<"1", ".", "0">>)
              /\ "reprompt" \notin Keys(Unwrap(emitted').data["response"])
              /\ "directives" \notin Keys(Unwrap(emitted').data["response"])
              /\ Unwrap(emitted').data["response"].data["shouldEndSession"] = JBool(TRUE)
      ]_vars

\* simple("T", "B") was serialized as it was constructed.
C12_Witness ==
    /\ ppc = "emitted"
    /\ Unwrap(made).op = "simple"
    /\ Unwrap(made).title = Str_T
    /\ Unwrap(made).text = Str_B
    /\ Unwrap(resp).response.card = Some(Card_simple(Str_T, Str_B))
    /\ Unwrap(resp).response.output_speech = Some(Speech_plain(Str_B))
    /\ Keys(Unwrap(emitted).data["response"]) = {"outputSpeech", "card", "shouldEndSession"}

\* C13: new(b) yields an envelope whose should_end_session is b, of version
\* 1.0, without session attributes, speech, card, reprompt or directives;
\* end() equals new(true).
C13_New ==
    [][ Constructed({"new", "end"})
          => /\ Unwrap(resp')
                  = [version |-> Unit("V1_0"),
                     session_attributes |-> None,
                     response |-> [output_speech |-> None, card |-> None, reprompt |-> None,
                                   should_end_session |-> Unwrap(made').flag,
                                   directives |-> None]]
             /\ Unwrap(made').op = "end" => Unwrap(resp') = ResponseEnvelope_new(TRUE)
      ]_vars

\* new(false) returned an envelope that does not end the session.
C13_Witness ==
    /\ ppc = "built"
    /\ Unwrap(made).op = "new"
    /\ Unwrap(made).flag = FALSE
    /\ Unwrap(resp).response.should_end_session = FALSE
    /\ Unwrap(resp).response.card = None
    /\ writes = << >>

\* The keys written so far.
WrittenKeys == {writes[i][1] : i \in DOMAIN writes}

\* The value of the most recent write to key k.
LastWritten(k) ==
    writes[CHOOSE i \in DOMAIN writes :
             writes[i][1] = k /\ \A n \in DOMAIN writes : writes[n][1] = k => n <= i][2]

\* C14: after any sequence of add_attribute calls the session attribute map
\* has exactly one entry per key written, holding the value of the most recent
\* write to it; the map is absent before the first write.
C14_AddAttribute ==
    ppc # "idle"
        => /\ writes = << >> <=> Unwrap(resp).session_attributes = None
           /\ writes # << >>
                => /\ DOMAIN Unwrap(Unwrap(resp).session_attributes) = WrittenKeys
                   /\ \A k \in WrittenKeys :
                         Unwrap(Unwrap(resp).session_attributes)[k] = LastWritten(k)

\* "k" was written as "v1" and then as "v2": one entry, "k" -> "v2".
C14_Witness ==
    /\ ppc = "built"
    /\ writes = << <<"k", Str_v1>>, <<"k", Str_v2>> >>
    /\ Unwrap(resp).session_attributes = Some("k" :> Str_v2)

\* Option o is None only if JSON object j has no key k.
Omitted(o, j, k) == o = None => k \notin Keys(j)

\* Slots with and without a value.
SomeSlots ==
    { [name |-> Str_bob, value |-> v, confirmation_status |-> Some(Str_NONE),
       resolutions |-> None] : v \in {None, Some(Str_bob)} }

\* C15: an optional field that is absent in the value is omitted from the
\* emitted JSON, never written as null: the slot value, the caption data's
\* type and content, the audio item metadata, the card's members and image
\* URLs, the directive list and the session attributes.
C15_AbsentOmitted ==
    /\ \A s \in SomeSlots : Omitted(s.value, ser_Slot(s), "value")
    /\ \A c \in Cards :
          /\ Omitted(c.title, ser_Card(c), "title")
          /\ Omitted(c.content, ser_Card(c), "content")
          /\ Omitted(c.text, ser_Card(c), "text")
          /\ Omitted(c.image, ser_Card(c), "image")
          /\ Omitted(c.permissions, ser_Card(c), "permissions")
          /\ IsSome(c.image)
               => /\ Omitted(Unwrap(c.image).small_image_url,
                             ser_Card(c).data["image"], "smallImageUrl")
                  /\ Omitted(Unwrap(c.image).large_image_url,
                             ser_Card(c).data["image"], "largeImageUrl")
    /\ ppc \in {"emitted", "reread"}
         => /\ Omitted(Unwrap(resp).session_attributes, Unwrap(emitted), "sessionAttributes")
            /\ Omitted(Unwrap(resp).response.directives,
                       Unwrap(emitted).data["response"], "directives")
            /\ \A i \in DOMAIN placed :
                  placed[i].value.variant = "Play"
                    => LET item == Unwrap(placed[i].value.play).audio_item
                           j == Unwrap(emitted).data["response"].data["directives"].data[i]
                                  .data["audioItem"]
                       IN /\ Omitted(item.metadata, j, "metadata")
                          /\ IsSome(item.metadata)
                               => /\ Omitted(Unwrap(item.metadata).title,
                                             j.data["metadata"], "title")
                                  /\ Omitted(Unwrap(item.metadata).subtitle,
                                             j.data["metadata"], "subtitle")
                                  /\ Omitted(Unwrap(item.metadata).art,
                                             j.data["metadata"], "art")
                          /\ Omitted(item.stream.caption_data, j.data["stream"], "captionData")
                          /\ IsSome(item.stream.caption_data)
                               => /\ Omitted(Unwrap(item.stream.caption_data).data_type,
                                             j.data["stream"].data["captionData"], "type")
                                  /\ Omitted(Unwrap(item.stream.caption_data).content,
                                             j.data["stream"].data["captionData"], "content")

\* Document j names no directive kind: it is no object, has no "type", or its
\* "type" is none of the names of the directive kinds.
Unrecognized(j) ==
    \/ j.kind # "object"
    \/ "type" \notin Keys(j)
    \/ j.data["type"] \notin {JStr(Str_AudioPlayer_Play), JStr(Str_AudioPlayer_Stop)}

\* C16: a directive document whose type is no recognized directive kind, or
\* that has no type, deserializes to Other holding the whole document, never to
\* Play or Stop, and is serialized again as the document received.
C16_UnrecognizedPassThrough ==
    \A i \in DOMAIN placed :
        (IsSome(placed[i].json) /\ Unrecognized(Unwrap(placed[i].json)))
            => /\ placed[i].value = Directive_Other(Unwrap(placed[i].json))
               /\ ppc \in {"emitted", "reread"}
                    => Unwrap(emitted).data["response"].data["directives"].data[i]
                         = Unwrap(placed[i].json)

\* C17: a serialized directive list has the directives the caller placed, as
\* many and in the same order, and so has the list read back from it.
C17_DirectiveOrder ==
    (ppc \in {"emitted", "reread"} /\ placed # << >>)
        => LET out == Unwrap(emitted).data["response"].data["directives"]
           IN /\ out.kind = "array"
              /\ Len(out.data) = Len(placed)
              /\ \A i \in DOMAIN placed : out.data[i] = ser_Directive(placed[i].value)
              /\ ppc = "reread"
                   => /\ Unwrap(reread).ok
                      /\ IsSome(Unwrap(reread).value.response.directives)
                      /\ Len(Unwrap(Unwrap(reread).value.response.directives)) = Len(placed)
                      /\ \A i \in DOMAIN placed :
                            Unwrap(Unwrap(reread).value.response.directives)[i]
                              = placed[i].value

\* A stop directive and then a passed-through document were placed, written
\* and read back in that order.
C17_Witness ==
    /\ ppc = "reread"
    /\ Len(placed) = 2
    /\ placed[1].value = Directive_Stop
    /\ placed[2].value.variant = "Other"
    /\ Unwrap(emitted).data["response"].data["directives"].data[1]
         = JObj(Member("type", JStr(Str_AudioPlayer_Stop)))
    /\ Unwrap(emitted).data["response"].data["directives"].data[2] = placed[2].value.value
    /\ Unwrap(Unwrap(reread).value.response.directives)[1] = Directive_Stop

\* The known variants of E whose wire string is s.
Encoders(E, s) ==
    {i \in DOMAIN Variants(E) : Serialize(E, Unit(Variants(E)[i])) = s}

\* C20: within each enumeration no two distinct known symbols share a wire
\* string, and the string a known symbol was encoded to is the wire string of
\* that symbol alone.
C20_EncodeInjective ==
    LET known == Variants(enumT)
        wires == [i \in DOMAIN known |-> Serialize(enumT, Unit(known[i]))]
    IN /\ \A i, j \in DOMAIN known :
            i # j => known[i] # known[j] /\ wires[i] # wires[j]
       /\ (pc = "encoded" /\ IsSome(orig) /\ IsKnownVariant(enumT, Unwrap(orig).variant))
             => /\ \E i \in DOMAIN known : wires[i] = Unwrap(wire)
                /\ \A i \in DOMAIN known :
                      wires[i] = Unwrap(wire) => known[i] = Unwrap(orig).variant

\* ImageSize::XSmall was encoded to "X_SMALL", which no other size yields.
C20_Witness ==
    /\ pc = "encoded"
    /\ enumT = "ImageSize"
    /\ orig = Some(Unit("XSmall"))
    /\ wire = Some(<<"X","_","S","M","A","L","L">>)
    /\ Encoders("ImageSize", <<"X","_","S","M","A","L","L">>) = {1}

\* ---------------------------------------------------------------- equality

\* C21: two values of one enumeration are equal exactly when both are the
\* same known symbol or both are Other with identical strings; a known symbol
\* is not equal to Other of its own wire string.
C21_Equality ==
    IsSome(val)
        => LET a == Unwrap(val)
           IN /\ \A b \in Values(enumT) :
                    PartialEq_eq(a, b)
                      <=> \/ /\ IsKnownVariant(enumT, a.variant)
                             /\ IsKnownVariant(enumT, b.variant)
                             /\ a.variant = b.variant
                          \/ /\ a.variant = "Other"
                             /\ b.variant = "Other"
                             /\ a.text = b.text
              /\ IsKnownVariant(enumT, a.variant)
                    => ~PartialEq_eq(a, Other(Serialize(enumT, a)))
              /\ (IsSome(answer) /\ Unwrap(answer).op = "eq")
                    => (Unwrap(answer).ret <=> Unwrap(orig) = a)

\* Locale::Other("en-US") was encoded, decoded as AmericanEnglish and found
\* unequal to it.
C21_Witness ==
    /\ pc = "decoded"
    /\ enumT = "Locale"
    /\ orig = Some(Other(<<"e","n","-","U","S">>))
    /\ val = Some(Unit("AmericanEnglish"))
    /\ answer = Some([op |-> "eq", ret |-> FALSE])

\* ---------------------------------------------------------------- casing

\* The wire strings of SpeechType, PlayBehavior and ImageSize, written out.
UpperSnakeWires ==
    << <<"PlainText", <<"P","l","a","i","n","T","e","x","t">>>>,
       <<"SSML", <<"S","S","M","L">>>>,
       <<"Enqueue", <<"E","N","Q","U","E","U","E">>>>,
       <<"ReplaceAll", <<"R","E","P","L","A","C","E","_","A","L","L">>>>,
       <<"ReplaceEnqueued", <<"R","E","P","L","A","C","E","_","E","N","Q","U","E","U","E","D">>>>,
       <<"XSmall", <<"X","_","S","M","A","L","L">>>>,
       <<"Small", <<"S","M","A","L","L">>>>,
       <<"Medium", <<"M","E","D","I","U","M">>>>,
       <<"Large", <<"L","A","R","G","E">>>>,
       <<"XLarge", <<"X","_","L","A","R","G","E">>>> >>

\* The wire string the casing convention of E gives its known symbol k: the
\* symbol name for RequestType and CardType, the written-out string otherwise.
ConventionWire(E, k) ==
    IF E \in {"RequestType", "CardType"}
    THEN Chars(k)
    ELSE UpperSnakeWires[CHOOSE i \in DOMAIN UpperSnakeWires : UpperSnakeWires[i][1] = k][2]

\* C22: every known RequestType and CardType symbol encodes to its name,
\* SpeechType to "PlainText" and "SSML", every known PlayBehavior and
\* ImageSize symbol to its name in upper snake case, and these strings decode
\* to the same symbols.
C22_CasingConvention ==
    enumT \in ConventionEnums
        => LET known == Variants(enumT)
           IN /\ \A i \in DOMAIN known :
                    /\ Serialize(enumT, Unit(known[i])) = ConventionWire(enumT, known[i])
                    /\ Deserialize(enumT, ConventionWire(enumT, known[i])) = Ok(Unit(known[i]))
              /\ enumT = "SpeechType"
                    => KnownWires(enumT) = {<<"P","l","a","i","n","T","e","x","t">>,
                                            <<"S","S","M","L">>}
              /\ (pc = "encoded" /\ IsSome(orig)
                                 /\ IsKnownVariant(enumT, Unwrap(orig).variant))
                    => wire = Some(ConventionWire(enumT, Unwrap(orig).variant))
              /\ pc = "decoded"
                    => \A i \in DOMAIN known :
                         Unwrap(wire) = ConventionWire(enumT, known[i])
                           => val = Some(Unit(known[i]))

\* PlayBehavior::ReplaceEnqueued went to "REPLACE_ENQUEUED" and back.
C22_Witness ==
    /\ pc = "decoded"
    /\ enumT = "PlayBehavior"
    /\ orig = Some(Unit("ReplaceEnqueued"))
    /\ wire = Some(<<"R","E","P","L","A","C","E","_","E","N","Q","U","E","U","E","D">>)
    /\ val = Some(Unit("ReplaceEnqueued"))

\* ---------------------------------------------------------------- collisions

\* The caller constructed Other of a known wire string of the enumeration.
CollidingOther ==
    /\ IsSome(orig)
    /\ Unwrap(orig).variant = "Other"
    /\ Unwrap(orig).text \in KnownWires(enumT)

\* C23: Other of a known wire string s is constructed as given, encodes to s,
\* and s decodes to the known symbol, which is not the Other the caller
\* constructed.
C23_CollidingOtherBreaksRoundTrip ==
    CollidingOther
        => /\ pc # "failed"
           /\ pc = "constructed" => val = orig
           /\ pc \in {"encoded", "decoded"} => wire = Some(Unwrap(orig).text)
           /\ pc = "decoded"
                => /\ IsKnownVariant(enumT, Unwrap(val).variant)
                   /\ Serialize(enumT, Unwrap(val)) = Unwrap(orig).text
                   /\ val # orig
                   /\ ~PartialEq_eq(Unwrap(val), Unwrap(orig))

\* IntentType::Other("AMAZON.HelpIntent") was encoded and decoded as Help.
C23_Witness ==
    /\ pc = "decoded"
    /\ enumT = "IntentType"
    /\ CollidingOther
    /\ orig = Some(Other(<<"A","M","A","Z","O","N",".","H","e","l","p","I","n","t","e","n","t">>))
    /\ val = Some(Unit("Help"))

\* ---------------------------------------------------------------- builder frame

\* Envelopes e and f agree on every field but those named in fields.
SameBut(e, f, fields) ==
    /\ "version" \in fields \/ f.version = e.version
    /\ "session_attributes" \in fields \/ f.session_attributes = e.session_attributes
    /\ "output_speech" \in fields \/ f.response.output_speech = e.response.output_speech
    /\ "card" \in fields \/ f.response.card = e.response.card
    /\ "reprompt" \in fields \/ f.response.reprompt = e.response.reprompt
    /\ "should_end_session" \in fields
          \/ f.response.should_end_session = e.response.should_end_session
    /\ "directives" \in fields \/ f.response.directives = e.response.directives

\* The envelope in memory with one directive pushed.
WithDirective == push_directive(Unwrap(resp), Directive_Stop)

\* C24: speech(s) sets output_speech to s and nothing else, card(c) sets card
\* to c and nothing else, add_attribute(k, v) changes session_attributes only;
\* the value set replaces whatever was there before.
C24_BuilderFrame ==
    [][ /\ \A s \in Speeches :
             SetSpeech(s)
               => /\ Unwrap(resp').response.output_speech = Some(s)
                  /\ SameBut(Unwrap(resp), Unwrap(resp'), {"output_speech"})
                  /\ SameBut(WithDirective, ResponseEnvelope_speech(WithDirective, s),
                             {"output_speech"})
        /\ \A c \in Cards :
             SetCard(c)
               => /\ Unwrap(resp').response.card = Some(c)
                  /\ SameBut(Unwrap(resp), Unwrap(resp'), {"card"})
                  /\ SameBut(WithDirective, ResponseEnvelope_card(WithDirective, c), {"card"})
        /\ \A key \in ResponseKeys, v \in ResponseVals :
             AddAttribute(key, v)
               => /\ SameBut(Unwrap(resp), Unwrap(resp'), {"session_attributes"})
                  /\ SameBut(WithDirective, add_attribute(WithDirective, key, v),
                             {"session_attributes"})
      ]_vars

\* On an envelope made by simple(), with a reprompt and an attribute, the
\* speech was replaced and the card was replaced by one with an image.
C24_Witness ==
    /\ ppc = "built"
    /\ Unwrap(made).op = "simple"
    /\ writes # << >>
    /\ IsSome(Unwrap(resp).response.reprompt)
    /\ Unwrap(resp).response.output_speech = Some(Speech_ssml(Str_foo))
    /\ Unwrap(resp).response.card = Some(Card_link_account)
    /\ Unwrap(resp).response.should_end_session = TRUE

\* ---------------------------------------------------------------- attribute growth

\* The keys of the session attributes of envelope e, none when absent.
AttributeKeysOf(e) ==
    IF IsSome(e.session_attributes) THEN DOMAIN Unwrap(e.session_attributes) ELSE {}

\* The step is a builder call: speech, card or add_attribute.
BuilderStep ==
    \/ \E s \in Speeches : SetSpeech(s)
    \/ \E c \in Cards : SetCard(c)
    \/ \E key \in ResponseKeys, v \in ResponseVals : AddAttribute(key, v)

\* C25: add_attribute leaves session_attributes present, and no builder call
\* (speech, card, add_attribute) makes present session attributes absent or
\* removes a key: the set of keys only grows.
C25_AttributesOnlyGrow ==
    [][ /\ \A key \in ResponseKeys, v \in ResponseVals :
             AddAttribute(key, v)
               => /\ IsSome(Unwrap(resp').session_attributes)
                  /\ key \in AttributeKeysOf(Unwrap(resp'))
        /\ BuilderStep
             => /\ IsSome(Unwrap(resp).session_attributes)
                      => IsSome(Unwrap(resp').session_attributes)
                /\ AttributeKeysOf(Unwrap(resp)) \subseteq AttributeKeysOf(Unwrap(resp'))
                /\ WrittenKeys \subseteq AttributeKeysOf(Unwrap(resp))
      ]_vars

\* Two keys were written to an envelope made by new() and a speech and a card
\* were set: both keys are there.
C25_Witness ==
    /\ ppc = "built"
    /\ Unwrap(made).op = "new"
    /\ Len(writes) = 2
    /\ writes[1][1] # writes[2][1]
    /\ IsSome(Unwrap(resp).response.output_speech)
    /\ IsSome(Unwrap(resp).response.card)
    /\ AttributeKeysOf(Unwrap(resp)) = {writes[1][1], writes[2][1]}

\* ---------------------------------------------------------------- language predicates

\* The language predicates that hold of locale v.
LanguagesOf(v) ==
    {op \in {"is_english", "is_french", "is_spanish"} :
       \/ op = "is_english" /\ is_english(v)
       \/ op = "is_french" /\ is_french(v)
       \/ op = "is_spanish" /\ is_spanish(v)}

====
